---- MODULE Spec2Model ----
(***************************************************************************)
(* Model of the Minecraft-model importer/exporter of Mcblend:               *)
(*   importer.py  pick_version_parser, ModelLoader, ImportGeometry          *)
(*   common.py    get_vect_json, get_mcpivot, get_object_mcproperties, ...  *)
(*   model.py     get_mcbone_json, get_mcmodel_json                         *)
(*                                                                         *)
(* Conventions                                                             *)
(*  - a Python str whose content the code inspects character by character  *)
(*    (format_version, identifiers, names) is a sequence of one-character  *)
(*    strings; the keys of the objects below the top-level object, which   *)
(*    are only compared for equality, are TLA+ strings;                    *)
(*  - a Python exception is a record [exc, what, path].                    *)
(***************************************************************************)
EXTENDS Integers, Sequences, FiniteSets, TLC

VARIABLES
    pc,         \* position of the running call
    parsers,    \* pick_version_parser: argument `parsers`
    version,    \* pick_version_parser: argument `version`
    picked,     \* pick_version_parser: its outcome (value or exception)
    input,      \* how the document was made (version, layout, change)
    call,       \* ModelLoader: its arguments [data, geometry_name]
    loader,     \* the ModelLoader object once __init__ has returned
    raised,     \* the exception that ended the run, None while there is none
    imported,   \* the ImportGeometry object once __init__ has returned
    objects,    \* the objects of the Blender scene in the order they were made
    exported,   \* the dictionary export_model returned
    selected_objects,   \* context.selected_objects: places in the scene
    mcproperties,       \* get_mcpivot: its arguments [objprop, object_properties]
    frames,     \* get_mcpivot: the running calls of _get_mcpivot, the last on top
    pivot,      \* get_mcpivot: the value that is being returned
    rotations,  \* pick_closest_rotation: its arguments
    closest,    \* pick_closest_rotation: the vector it returned
    search,     \* _pick_closet_location: its locals [choice, distance, i]
    conflict,   \* get_name_conflicts: the str it returned
    keyframes,  \* export_animation: the keyframes of the scene, each with
                \* the transformations get_mctranslations gives there
    next_keyframe,      \* export_animation: place of the keyframe, 0 = None
    prev_rotation,      \* export_animation: its dict of that name
    bone_data   \* export_animation: its dict of that name

vars == <<pc, parsers, version, picked, input, call, loader, raised,
          imported, objects, exported,
          selected_objects, mcproperties, frames, pivot, rotations, closest,
          search, conflict, keyframes, next_keyframe, prev_rotation, bone_data>>

(***************************************************************************)
(* JSON values (what json.load returns)                                    *)
(*   None, bool, number, str, list, dict                                   *)
(* A number is kept with its Python type as a multiple of 1/One, One being *)
(* 2 * 1000 * MINECRAFT_SCALE_FACTOR: a number with three decimals stays   *)
(* whole when it is halved and divided by MINECRAFT_SCALE_FACTOR.  PyFloat *)
(* takes thousandths (1.5 is PyFloat(1500)).                               *)
(* A dict is the sequence of its <<key, value>> pairs in insertion order;  *)
(* its keys are pairwise distinct.  The keys of the top-level object and   *)
(* of a locators object are character sequences (the code looks into       *)
(* them), every other key is a TLA+ string.                                *)
(***************************************************************************)
MINECRAFT_SCALE_FACTOR == 16

One == 2 * 1000 * MINECRAFT_SCALE_FACTOR

None == [t |-> "None"]
PyBool(b) == [t |-> "bool", v |-> b]
PyInt(n) == [t |-> "int", v |-> n * One]
PyFloat(milli) == [t |-> "float", v |-> milli * 2 * MINECRAFT_SCALE_FACTOR]
PyStr(chars) == [t |-> "str", v |-> chars]
PyList(items) == [t |-> "list", v |-> items]
PyDict(pairs) == [t |-> "dict", v |-> pairs]

\* set(d.keys()), key in d, d[key]
Keys(d) == {d.v[i][1] : i \in 1..Len(d.v)}
Has(d, key) == \E i \in 1..Len(d.v) : d.v[i][1] = key
Get(d, key) == d.v[CHOOSE i \in 1..Len(d.v) : d.v[i][1] = key][2]

\* isinstance(obj, types); bool is a subclass of int
IsInstance(obj, types) ==
    \/ obj.t \in types
    \/ obj.t = "bool" /\ "int" \in types

Number == {"int", "float"}

\* the number a bool, int or float stands for, in multiples of 1/One
NumberOf(obj) ==
    IF obj.t = "bool" THEN (IF obj.v THEN One ELSE 0) ELSE obj.v

\* int(x): truncation towards zero
PyIntOf(obj) ==
    LET n == NumberOf(obj)
    IN  [t |-> "int",
         v |-> IF n >= 0 THEN (n \div One) * One
               ELSE 0 - (((0 - n) \div One) * One)]

\* the tokens of a JSON path: a key, a key kept as characters, a list index
K(key) == [k |-> key]
S(chars) == [s |-> chars]
I(index) == [i |-> index]

(***************************************************************************)
(* Strings as character sequences                                          *)
(***************************************************************************)
DigitChars == <<"0", "1", "2", "3", "4", "5", "6", "7", "8", "9">>

IsDigit(c) == \E i \in 1..10 : DigitChars[i] = c

\* int('7') for one decimal digit
DigitVal(c) == (CHOOSE i \in 1..10 : DigitChars[i] = c) - 1

\* str.split(sep): the pieces between the separators, empty pieces included
RECURSIVE Split(_, _)
Split(s, sep) ==
    IF \A i \in 1..Len(s) : s[i] # sep
    THEN <<s>>
    ELSE LET i == CHOOSE j \in 1..Len(s) :
                      s[j] = sep /\ \A k \in 1..(j-1) : s[k] # sep
         IN  <<SubSeq(s, 1, i-1)>> \o Split(SubSeq(s, i+1, Len(s)), sep)

\* value of a non-empty sequence of decimal digits
RECURSIVE DigitsVal(_)
DigitsVal(s) ==
    IF Len(s) = 0 THEN 0
    ELSE 10 * DigitsVal(SubSeq(s, 1, Len(s)-1)) + DigitVal(s[Len(s)])

AllDigits(s) == Len(s) > 0 /\ \A i \in 1..Len(s) : IsDigit(s[i])

\* int(a) succeeds: an optional sign followed by at least one digit
\* (the alphabet of the model holds no blank and no underscore)
IntParses(a) ==
    \/ AllDigits(a)
    \/ Len(a) > 1 /\ a[1] \in {"-", "+"} /\ AllDigits(Tail(a))

\* int(a)
IntOf(a) ==
    IF a[1] = "-" THEN 0 - DigitsVal(Tail(a))
    ELSE IF a[1] = "+" THEN DigitsVal(Tail(a))
    ELSE DigitsVal(a)

\* str(i) for an integer
RECURSIVE NatToStr(_)
NatToStr(n) ==
    IF n < 10 THEN <<DigitChars[n+1]>>
    ELSE NatToStr(n \div 10) \o <<DigitChars[(n % 10) + 1]>>

IntToStr(i) == IF i < 0 THEN <<"-">> \o NatToStr(0 - i) ELSE NatToStr(i)

\* sep.join(parts)
RECURSIVE Join(_, _)
Join(parts, sep) ==
    IF Len(parts) = 0 THEN <<>>
    ELSE IF Len(parts) = 1 THEN parts[1]
    ELSE parts[1] \o <<sep>> \o Join(Tail(parts), sep)

(***************************************************************************)
(* Exceptions                                                              *)
(***************************************************************************)
\* raise FileIsNotAModelException(f'{json_path}::{what} ...')
FileIsNotAModel(what, path) ==
    [exc |-> "FileIsNotAModelException", what |-> what, path |-> path]

\* raise ImportingNotImplementedError(what, path)
NotImplemented(what, path) ==
    [exc |-> "ImportingNotImplementedError", what |-> what, path |-> path]

\* exceptions of the module that are raised without a JSON path
NoPath == <<[nopath |-> TRUE]>>

Ok(v) == [ok |-> TRUE, value |-> v]
Raise(e) == [ok |-> FALSE, error |-> e]

(***************************************************************************)
(* pick_version_parser                                                     *)
(***************************************************************************)
\* to_tuple succeeds: every piece of version.split('.') is accepted by int().
\* A version that is no str has no split(): the bare except turns that
\* AttributeError into the same exception.
ToTupleParses(v) ==
    /\ v.t = "str"
    /\ \A i \in 1..Len(Split(v.v, ".")) : IntParses(Split(v.v, ".")[i])

\* to_tuple(version)
ToTuple(v) == [i \in 1..Len(Split(v.v, ".")) |-> IntOf(Split(v.v, ".")[i])]

\* Python's a <= b on tuples of int: lexicographic, a proper prefix is smaller
RECURSIVE TupleLeq(_, _)
TupleLeq(a, b) ==
    IF Len(a) = 0 THEN TRUE
    ELSE IF Len(b) = 0 THEN FALSE
    ELSE IF a[1] # b[1] THEN a[1] < b[1]
    ELSE TupleLeq(Tail(a), Tail(b))

\* a mutant of SortReverse: list.sort() without reverse=True
RECURSIVE SortAscending(_)
SortAscending(ts) ==
    IF Len(ts) = 0 THEN <<>>
    ELSE LET i == CHOOSE j \in 1..Len(ts) :
                      /\ \A k \in 1..Len(ts) : TupleLeq(ts[j], ts[k])
                      /\ \A k \in 1..(j-1) : ts[k] # ts[j]
             rest == [k \in 1..(Len(ts)-1) |-> IF k < i THEN ts[k] ELSE ts[k+1]]
         IN  <<ts[i]>> \o SortAscending(rest)

\* t_parsers.sort(reverse=True)
RECURSIVE SortReverse(_)
SortReverse(ts) ==
    IF Len(ts) = 0 THEN <<>>
    ELSE LET i == CHOOSE j \in 1..Len(ts) :
                      /\ \A k \in 1..Len(ts) : TupleLeq(ts[k], ts[j])
                      /\ \A k \in 1..(j-1) : ts[k] # ts[j]
             rest == [k \in 1..(Len(ts)-1) |-> IF k < i THEN ts[k] ELSE ts[k+1]]
         IN  <<ts[i]>> \o SortReverse(rest)

\* the for loop: the first t_parser with t_parser <= t_version;
\* found = FALSE stands for best_choice = None
FirstLeq(t_parsers, t_version) ==
    IF \E i \in 1..Len(t_parsers) : TupleLeq(t_parsers[i], t_version)
    THEN LET i == CHOOSE j \in 1..Len(t_parsers) :
                      /\ TupleLeq(t_parsers[j], t_version)
                      /\ \A k \in 1..(j-1) : ~TupleLeq(t_parsers[k], t_version)
         IN  [found |-> TRUE, t |-> t_parsers[i]]
    ELSE [found |-> FALSE, t |-> <<>>]

V_1_12_0 == <<"1", ".", "1", "2", ".", "0">>
V_1_8_0 == <<"1", ".", "8", ".", "0">>
V_1_9_3 == <<"1", ".", "9", ".", "3">>
V_1_0_0 == <<"1", ".", "0", ".", "0">>
V_1_16_0 == <<"1", ".", "1", "6", ".", "0">>
V_1_10_0 == <<"1", ".", "1", "0", ".", "0">>

\* the tuple every caller in importer.py passes
KnownParsers == <<V_1_12_0, V_1_8_0>>

UnableToParse == FileIsNotAModel("Unable to parse format version number", NoPath)
UnsupportedVersion == FileIsNotAModel("Unsuported format version", NoPath)

pick_version_parser(ps, v) ==
    IF \E i \in 1..Len(ps) : ~ToTupleParses(PyStr(ps[i])) THEN Raise(UnableToParse)
    ELSE IF ~ToTupleParses(v) THEN Raise(UnableToParse)
    ELSE LET t_parsers == SortReverse([i \in 1..Len(ps) |-> ToTuple(PyStr(ps[i]))])
             best_choice == FirstLeq(t_parsers, ToTuple(v))
         IN  IF ~best_choice.found THEN Raise(UnsupportedVersion)
             ELSE Ok(Join([i \in 1..Len(best_choice.t) |->
                               IntToStr(best_choice.t[i])], "."))

(***************************************************************************)
(* importer.py: assertions                                                 *)
(***************************************************************************)
Pass == [ok |-> TRUE]

\* statement a, then statement b unless a raised
Then(a, b) == IF a.ok THEN b ELSE a

\* value = a, then b(value) unless a raised
Bind(a, b(_)) == IF a.ok THEN b(a.value) ELSE a

_assert_is_type(obj, types, json_path) ==
    IF IsInstance(obj, types) THEN Pass
    ELSE Raise(FileIsNotAModel("is not an instance", json_path))

_assert_is_vector(obj, length, types, json_path) ==
    IF obj.t # "list"
    THEN Raise(FileIsNotAModel("is not a list", json_path))
    ELSE IF Len(obj.v) # length
    THEN Raise(FileIsNotAModel("has invalid length", json_path))
    ELSE IF \E i \in 1..Len(obj.v) : ~IsInstance(obj.v[i], types)
    THEN Raise(FileIsNotAModel("is not instance of List", json_path))
    ELSE Pass

_assert_has_required_keys(has_keys, required_keys, json_path) ==
    IF required_keys \ has_keys # {}
    THEN Raise(FileIsNotAModel("is missing properties", json_path))
    ELSE Pass

\* a check that lets every key pass
AcceptsEveryKey(has_keys, accepted_keys, json_path) == Pass

_assert_has_accepted_keys_only(has_keys, accepted_keys, json_path) ==
    IF has_keys \ accepted_keys # {}
    THEN Raise(FileIsNotAModel("has unexpected properties", json_path))
    ELSE Pass

(***************************************************************************)
(* Keys of the top-level object                                            *)
(***************************************************************************)
K_format_version ==
    <<"f", "o", "r", "m", "a", "t", "_", "v", "e", "r", "s", "i", "o", "n">>
K_minecraft_geometry ==
    <<"m", "i", "n", "e", "c", "r", "a", "f", "t", ":",
      "g", "e", "o", "m", "e", "t", "r", "y">>
K_cape == <<"c", "a", "p", "e">>
K_debug == <<"d", "e", "b", "u", "g">>
GeometryDot == <<"g", "e", "o", "m", "e", "t", "r", "y", ".">>

\* str.startswith
StartsWith(s, prefix) ==
    Len(s) >= Len(prefix) /\ SubSeq(s, 1, Len(prefix)) = prefix

(***************************************************************************)
(* ModelLoader._load_format_version                                        *)
(***************************************************************************)
\* lines 117-146: what follows the check of the required key
ResolveFormatVersion(data) ==
    Bind(pick_version_parser(KnownParsers, Get(data, K_format_version)),
         LAMBDA parser_version :
        IF parser_version = V_1_12_0
        THEN Then(_assert_has_required_keys(
                      Keys(data), {K_minecraft_geometry, K_format_version}, <<>>),
             Then(_assert_has_accepted_keys_only(
                      Keys(data),
                      {K_minecraft_geometry, K_format_version, K_cape}, <<>>),
             IF Has(data, K_cape) THEN Raise(NotImplemented("cape", <<>>))
             ELSE Ok(Get(data, K_format_version))))
        ELSE IF parser_version = V_1_8_0
        THEN IF \E k \in Keys(data) :
                    ~(StartsWith(k, GeometryDot) \/ k \in {K_debug, K_format_version})
             THEN Raise(FileIsNotAModel("is invalid geometry name", <<>>))
             ELSE IF Has(data, K_debug) THEN Raise(NotImplemented("debug", <<>>))
             ELSE Ok(Get(data, K_format_version))
        ELSE Raise(FileIsNotAModel("Unsuported format version", NoPath)))

\* a loader that reads data.get('format_version') and does not check that
\* the key is there
LoadFormatVersionUnchecked(data) ==
    IF Has(data, K_format_version) THEN ResolveFormatVersion(data)
    ELSE Raise(UnableToParse)

_load_format_version(data) ==
    Then(_assert_has_required_keys(Keys(data), {K_format_version}, <<>>),
         ResolveFormatVersion(data))

\* the parser version every later step works out again from
\* self.format_version; _load_format_version returned, so it is defined
ParserOf(format_version) ==
    pick_version_parser(KnownParsers, format_version).value

(***************************************************************************)
(* ModelLoader._load_geometry                                              *)
(***************************************************************************)
\* raise ValueError(f'Unable to find geometry called geometry.{geometry_name}')
GeometryNotFound(geometry_name) ==
    [exc |-> "ValueError", what |-> "Unable to find geometry called",
     name |-> geometry_name]

\* a comparison that takes whatever geometry comes first
SelectsFirst(identifier, geometry_name) == TRUE

\* identifier == geometry_name or geometry_name == ''
\* (identifier is a JSON value, geometry_name a str)
Selects(identifier, geometry_name) ==
    \/ identifier.t = "str" /\ identifier.v = geometry_name
    \/ geometry_name = <<>>

\* the loop over data['minecraft:geometry'] from the i-th geometry on.
\* Every description the inputs hold is a dict ('identifier' not in desc).
RECURSIVE ScanGeometries_1_12(_, _, _)
ScanGeometries_1_12(geometries, i, geometry_name) ==
    IF i > Len(geometries.v)
    THEN Raise(GeometryNotFound(geometry_name))
    ELSE LET geometry == geometries.v[i]
             path == <<S(K_minecraft_geometry), I(i-1)>>
         IN  Then(_assert_is_type(geometry, {"dict"}, path),
             Then(_assert_has_required_keys(
                      Keys(geometry), {"description", "bones"}, path),
             Then(_assert_has_accepted_keys_only(
                      Keys(geometry), {"description", "bones"}, path),
             LET desc == Get(geometry, "description")
             IN  IF ~Has(desc, "identifier")
                 THEN Raise(FileIsNotAModel("description is missing identifier", path))
                 ELSE IF Selects(Get(desc, "identifier"), geometry_name)
                 THEN Ok([geometry |-> geometry, path |-> path])
                 ELSE ScanGeometries_1_12(geometries, i+1, geometry_name))))

GeometryKeys_1_8 ==
    {"debug", "visible_bounds_width", "visible_bounds_height",
     "visible_bounds_offset", "texturewidth", "textureheight", "cape", "bones"}

\* the loop over data.items() from the i-th item on
RECURSIVE ScanGeometries_1_8(_, _, _)
ScanGeometries_1_8(geometries, i, geometry_name) ==
    IF i > Len(geometries.v)
    THEN Raise(GeometryNotFound(geometry_name))
    ELSE LET k == geometries.v[i][1]
             geometry == geometries.v[i][2]
             path == <<S(k)>>
         IN  IF k \in {K_format_version, K_debug}
             THEN ScanGeometries_1_8(geometries, i+1, geometry_name)
             ELSE Then(_assert_is_type(geometry, {"dict"}, path),
                  Then(_assert_has_accepted_keys_only(
                           Keys(geometry), GeometryKeys_1_8, path),
                  IF Selects(PyStr(k), geometry_name)
                  THEN Ok([geometry |-> geometry, path |-> path])
                  ELSE ScanGeometries_1_8(geometries, i+1, geometry_name)))

_load_geometry(geometry_name, data, format_version) ==
    IF ParserOf(format_version) = V_1_12_0
    THEN LET geometries == Get(data, K_minecraft_geometry)
         IN  Then(_assert_is_type(geometries, {"list"},
                                  <<S(K_minecraft_geometry)>>),
                  ScanGeometries_1_12(geometries, 1, geometry_name))
    ELSE Then(_assert_is_type(data, {"dict"}, <<>>),
              ScanGeometries_1_8(data, 1, geometry_name))

(***************************************************************************)
(* The runs of `if key in obj:` blocks of _load_description, _load_bone    *)
(* and _load_cube.  A block is described by                                 *)
(*   key     the key it tests                                              *)
(*   kind    what it does with obj[key]:                                   *)
(*     "type"          _assert_is_type, then result[store] = value         *)
(*     "int"           _assert_is_type, then result[store] = int(value)    *)
(*     "vector"        _assert_is_vector, then result[store] = value       *)
(*     "type_raise"    _assert_is_type, then ImportingNotImplementedError  *)
(*     "vector_raise"  _assert_is_vector, then ImportingNotImplementedError*)
(*     "raise"         ImportingNotImplementedError                        *)
(*     "cubes"         result['cubes'] = _load_cubes(...)                  *)
(*     "locators"      result['locators'] = _load_locators(...)            *)
(*     "uv_1_12"       the uv block of the 1.12.0 cube                     *)
(*     "uv_1_8"        the uv block of the 1.8.0 cube                      *)
(* and the blocks run in the order of the table.                           *)
(***************************************************************************)
Field(key, kind, types, length, store) ==
    [key |-> key, kind |-> kind, types |-> types, length |-> length,
     store |-> store]

Zero3 == PyList(<<PyInt(0), PyInt(0), PyInt(0)>>)

DescriptionDefaults ==
    [identifier |-> None,
     texture_width |-> PyInt(64),
     texture_height |-> PyInt(64),
     visible_bounds_offset |-> Zero3,
     visible_bounds_width |-> PyInt(1),
     visible_bounds_height |-> PyInt(1)]

DescriptionKeys_1_12 ==
    {"identifier", "texture_width", "texture_height",
     "visible_bounds_offset", "visible_bounds_width", "visible_bounds_height"}

DescriptionFields_1_12 ==
    << Field("identifier", "type", {"str"}, 0, "identifier"),
       Field("texture_width", "int", Number, 0, "texture_width"),
       Field("texture_height", "int", Number, 0, "texture_height"),
       Field("visible_bounds_offset", "vector", Number, 3, "visible_bounds_offset"),
       Field("visible_bounds_width", "type", Number, 0, "visible_bounds_width"),
       Field("visible_bounds_height", "type", Number, 0, "visible_bounds_height") >>

DescriptionFields_1_8 ==
    << Field("debug", "type_raise", {"bool"}, 0, "debug"),
       Field("texturewidth", "int", Number, 0, "texture_width"),
       Field("textureheight", "int", Number, 0, "texture_height"),
       Field("visible_bounds_offset", "vector", Number, 3, "visible_bounds_offset"),
       Field("visible_bounds_width", "type", Number, 0, "visible_bounds_width"),
       Field("visible_bounds_height", "type", Number, 0, "visible_bounds_height") >>

BoneDefaults ==
    [name |-> None,
     parent |-> None,
     pivot |-> Zero3,
     rotation |-> Zero3,
     mirror |-> PyBool(FALSE),
     inflate |-> PyFloat(0),
     debug |-> PyBool(FALSE),
     render_group_id |-> PyInt(0),
     cubes |-> <<>>,
     locators |-> <<>>,
     poly_mesh |-> PyDict(<<>>),
     texture_meshes |-> PyList(<<>>)]

BoneKeys_1_12 ==
    {"name", "parent", "pivot", "rotation", "mirror", "inflate", "debug",
     "render_group_id", "cubes", "locators", "poly_mesh", "texture_meshes"}

BoneFields_1_12 ==
    << Field("name", "type", {"str"}, 0, "name"),
       Field("parent", "type", {"str"}, 0, "parent"),
       Field("pivot", "vector", Number, 3, "pivot"),
       Field("rotation", "vector", Number, 3, "rotation"),
       Field("mirror", "type", {"bool"}, 0, "mirror"),
       Field("inflate", "type_raise", Number, 0, "inflate"),
       Field("debug", "type_raise", {"bool"}, 0, "debug"),
       Field("redner_group_id", "type_raise", Number, 0, "render_group_id"),
       Field("cubes", "cubes", {}, 0, "cubes"),
       Field("locators", "locators", {}, 0, "locators"),
       Field("poly_mesh", "raise", {}, 0, "poly_mesh"),
       Field("texture_meshes", "raise", {}, 0, "texture_meshes") >>

BoneKeys_1_8 ==
    {"name", "reset", "neverRender", "parent", "pivot", "rotation",
     "bind_pose_rotation", "mirror", "inflate", "debug", "render_group_id",
     "cubes", "locators", "poly_mesh", "texture_meshes"}

BoneFields_1_8 ==
    << Field("name", "type", {"str"}, 0, "name"),
       Field("reset", "type_raise", {"bool"}, 0, "reset"),
       Field("neverRender", "type_raise", {"bool"}, 0, "neverRender"),
       Field("parent", "type", {"str"}, 0, "parent"),
       Field("pivot", "vector", Number, 3, "pivot"),
       Field("rotation", "vector", Number, 3, "rotation"),
       Field("bind_pose_rotation", "vector_raise", Number, 3, "bind_pose_rotation"),
       Field("mirror", "type", {"bool"}, 0, "mirror"),
       Field("inflate", "type_raise", Number, 0, "inflate"),
       Field("debug", "type_raise", {"bool"}, 0, "debug"),
       Field("redner_group_id", "type_raise", Number, 0, "render_group_id"),
       Field("cubes", "cubes", {}, 0, "cubes"),
       Field("locators", "locators", {}, 0, "locators"),
       Field("poly_mesh", "raise", {}, 0, "poly_mesh"),
       Field("texture_meshes", "raise", {}, 0, "texture_meshes") >>

\* cube defaults that forget the mirror of the bone
CubeDefaultsNotMirrored(default_mirror) ==
    [origin |-> Zero3, size |-> Zero3, rotation |-> Zero3, pivot |-> Zero3,
     inflate |-> PyInt(0), mirror |-> PyBool(FALSE),
     uv |-> PyList(<<PyInt(0), PyInt(0)>>)]

CubeDefaults(default_mirror) ==
    [origin |-> Zero3,
     size |-> Zero3,
     rotation |-> Zero3,
     pivot |-> Zero3,
     inflate |-> PyInt(0),
     mirror |-> default_mirror,
     uv |-> PyList(<<PyInt(0), PyInt(0)>>)]

CubeKeys_1_12 ==
    {"mirror", "inflate", "pivot", "rotation", "origin", "size", "uv"}

\* the blocks of the 1.12.0 cube with the uv block of the 1.8.0 cube
CubeFields_1_12_uv_list ==
    << Field("origin", "vector", Number, 3, "origin"),
       Field("size", "vector", Number, 3, "size"),
       Field("rotation", "vector", Number, 3, "rotation"),
       Field("pivot", "vector", Number, 3, "pivot"),
       Field("inflate", "type", Number, 0, "inflate"),
       Field("mirror", "type", {"bool"}, 0, "mirror"),
       Field("uv", "uv_1_8", {"list"}, 2, "uv") >>

CubeFields_1_12 ==
    << Field("origin", "vector", Number, 3, "origin"),
       Field("size", "vector", Number, 3, "size"),
       Field("rotation", "vector", Number, 3, "rotation"),
       Field("pivot", "vector", Number, 3, "pivot"),
       Field("inflate", "type", Number, 0, "inflate"),
       Field("mirror", "type", {"bool"}, 0, "mirror"),
       Field("uv", "uv_1_12", {"list", "dict"}, 2, "uv") >>

CubeKeys_1_8 == {"origin", "size", "uv", "inflate", "mirror"}

CubeFields_1_8 ==
    << Field("origin", "vector", Number, 3, "origin"),
       Field("size", "vector", Number, 3, "size"),
       Field("inflate", "type", Number, 0, "inflate"),
       Field("mirror", "type", {"bool"}, 0, "mirror"),
       Field("uv", "uv_1_8", {"list"}, 2, "uv") >>

(***************************************************************************)
(* ModelLoader._load_locator, _load_locators                               *)
(***************************************************************************)
_load_locator(locator, locator_path, parser_version) ==
    IF parser_version = V_1_12_0
    THEN IF locator.t = "list"
         THEN Then(_assert_is_vector(locator, 3, Number, locator_path),
                   Ok(locator))
         ELSE IF locator.t = "dict"
         THEN Raise(NotImplemented("locator", locator_path))
         ELSE Raise(FileIsNotAModel("is not an instance",
                                    Append(locator_path, K("locator"))))
    ELSE Then(_assert_is_type(locator, {"list"}, locator_path),
         Then(_assert_is_vector(locator, 3, Number, locator_path),
              Ok(locator)))

\* the loop over locators.items() from the i-th item on
RECURSIVE LoadLocatorsFrom(_, _, _, _, _)
LoadLocatorsFrom(locators, i, locators_path, parser_version, result) ==
    IF i > Len(locators.v) THEN Ok(result)
    ELSE Bind(_load_locator(locators.v[i][2],
                            Append(locators_path, S(locators.v[i][1])),
                            parser_version),
              LAMBDA loaded :
                  LoadLocatorsFrom(locators, i+1, locators_path, parser_version,
                                   Append(result, <<locators.v[i][1], loaded>>)))

_load_locators(locators, locators_path, parser_version) ==
    Then(_assert_is_type(locators, {"dict"}, locators_path),
         LoadLocatorsFrom(locators, 1, locators_path, parser_version, <<>>))

(***************************************************************************)
(* The blocks, ModelLoader._load_cube, _load_cubes                         *)
(***************************************************************************)
RECURSIVE LoadFields(_, _, _, _, _, _)
RECURSIVE LoadCubesFrom(_, _, _, _, _, _)
RECURSIVE _load_cubes(_, _, _, _)

\* obj: the JSON object; fields: the blocks still to run; result: the dict
\* built so far; check_base: the path the type assertions extend;
\* own_path: the path of obj
LoadFields(obj, fields, result, check_base, own_path, parser_version) ==
    IF Len(fields) = 0 THEN Ok(result)
    ELSE
    LET f == Head(fields)
        go(r) == LoadFields(obj, Tail(fields), r, check_base, own_path,
                            parser_version)
    IN  IF ~Has(obj, f.key) THEN go(result)
        ELSE
        LET value == Get(obj, f.key)
            check_path == Append(check_base, K(f.key))
            key_path == Append(own_path, K(f.key))
            stored == [result EXCEPT ![f.store] = value]
        IN  CASE f.kind = "type" ->
                   Then(_assert_is_type(value, f.types, check_path), go(stored))
              [] f.kind = "int" ->
                   Then(_assert_is_type(value, f.types, check_path),
                        go([result EXCEPT ![f.store] = PyIntOf(value)]))
              [] f.kind = "vector" ->
                   Then(_assert_is_vector(value, f.length, f.types, check_path),
                        go(stored))
              [] f.kind = "type_raise" ->
                   Then(_assert_is_type(value, f.types, check_path),
                        Raise(NotImplemented(f.key, key_path)))
              [] f.kind = "vector_raise" ->
                   Then(_assert_is_vector(value, f.length, f.types, check_path),
                        Raise(NotImplemented(f.key, key_path)))
              [] f.kind = "raise" ->
                   Raise(NotImplemented(f.key, key_path))
              [] f.kind = "cubes" ->
                   \* default mirror for cube is the bones mirror property
                   Bind(_load_cubes(value, key_path, result.mirror,
                                    parser_version),
                        LAMBDA cubes : go([result EXCEPT !.cubes = cubes]))
              [] f.kind = "locators" ->
                   Bind(_load_locators(value, key_path, parser_version),
                        LAMBDA locators :
                            go([result EXCEPT !.locators = locators]))
              [] f.kind = "uv_1_12" ->
                   Then(_assert_is_type(value, f.types, check_path),
                        IF value.t = "dict"
                        THEN Raise(NotImplemented("uv dictionary", key_path))
                        ELSE Then(_assert_is_vector(value, f.length, Number,
                                                    check_path),
                                  go(stored)))
              [] f.kind = "uv_1_8" ->
                   Then(_assert_is_type(value, f.types, check_path),
                   Then(_assert_is_vector(value, f.length, Number, check_path),
                        go(stored)))

_load_cube(cube, cube_path, default_mirror, parser_version) ==
    Then(_assert_is_type(cube, {"dict"}, cube_path),
    IF parser_version = V_1_12_0
    THEN Then(_assert_has_accepted_keys_only(Keys(cube), CubeKeys_1_12, cube_path),
              LoadFields(cube, CubeFields_1_12, CubeDefaults(default_mirror),
                         cube_path, cube_path, parser_version))
    ELSE Then(_assert_has_accepted_keys_only(Keys(cube), CubeKeys_1_8, cube_path),
              LoadFields(cube, CubeFields_1_8, CubeDefaults(default_mirror),
                         cube_path, cube_path, parser_version)))

\* the loop of _load_cubes from the i-th cube on
LoadCubesFrom(cubes, i, cubes_path, default_mirror, parser_version, result) ==
    IF i > Len(cubes.v) THEN Ok(result)
    ELSE Bind(_load_cube(cubes.v[i], Append(cubes_path, I(i-1)),
                         default_mirror, parser_version),
              LAMBDA loaded :
                  LoadCubesFrom(cubes, i+1, cubes_path, default_mirror,
                                parser_version, Append(result, loaded)))

_load_cubes(cubes, cubes_path, default_mirror, parser_version) ==
    Then(_assert_is_type(cubes, {"list"}, cubes_path),
         LoadCubesFrom(cubes, 1, cubes_path, default_mirror, parser_version,
                       <<>>))

(***************************************************************************)
(* ModelLoader._load_bone, _load_bones                                     *)
(***************************************************************************)
_load_bone(bone, bone_path, parser_version) ==
    Then(_assert_is_type(bone, {"dict"}, bone_path),
    Then(_assert_has_required_keys(Keys(bone), {"name"}, bone_path),
    IF parser_version = V_1_12_0
    THEN Then(_assert_has_accepted_keys_only(Keys(bone), BoneKeys_1_12, bone_path),
              LoadFields(bone, BoneFields_1_12, BoneDefaults,
                         bone_path, bone_path, parser_version))
    ELSE Then(_assert_has_accepted_keys_only(Keys(bone), BoneKeys_1_8, bone_path),
              LoadFields(bone, BoneFields_1_8, BoneDefaults,
                         bone_path, bone_path, parser_version))))

\* the loop of _load_bones from the i-th bone on
RECURSIVE LoadBonesFrom(_, _, _, _, _)
LoadBonesFrom(bones, i, bones_path, parser_version, result) ==
    IF i > Len(bones.v) THEN Ok(result)
    ELSE Bind(_load_bone(bones.v[i], Append(bones_path, I(i-1)),
                         parser_version),
              LAMBDA loaded :
                  LoadBonesFrom(bones, i+1, bones_path, parser_version,
                                Append(result, loaded)))

_load_bones(bones, bones_path, parser_version) ==
    Then(_assert_is_type(bones, {"list"}, bones_path),
         LoadBonesFrom(bones, 1, bones_path, parser_version, <<>>))

(***************************************************************************)
(* ModelLoader._load_description                                           *)
(***************************************************************************)
_load_description(geometry, geometry_path, parser_version) ==
    IF parser_version = V_1_12_0
    THEN LET desc == Get(geometry, "description")
             path == Append(geometry_path, K("description"))
         IN  Then(_assert_has_required_keys(Keys(desc), {"identifier"}, path),
             Then(_assert_has_accepted_keys_only(
                      Keys(desc), DescriptionKeys_1_12, path),
                  LoadFields(desc, DescriptionFields_1_12, DescriptionDefaults,
                             geometry_path, path, parser_version)))
    ELSE LET desc == geometry
             path == geometry_path
         IN  Then(_assert_has_accepted_keys_only(
                      Keys(desc), GeometryKeys_1_8, path),
                  LoadFields(desc, DescriptionFields_1_8,
                             [DescriptionDefaults EXCEPT
                                 !.identifier = PyStr(path[Len(path)].s)],
                             geometry_path, path, parser_version))

(***************************************************************************)
(* ModelLoader.__init__                                                    *)
(***************************************************************************)
\* d[key] for a key the dict d does not hold
KeyError(key) == [exc |-> "KeyError", what |-> key]

\* the loader object: Ok(its attributes), or the exception that left
\* __init__
ModelLoader(data, geometry_name) ==
    Bind(_load_format_version(data), LAMBDA format_version :
    Bind(_load_geometry(geometry_name, data, format_version), LAMBDA found :
    Bind(_load_description(found.geometry, found.path, ParserOf(format_version)),
         LAMBDA description :
    IF ~Has(found.geometry, "bones") THEN Raise(KeyError("bones"))
    ELSE
    Bind(_load_bones(Get(found.geometry, "bones"),
                     Append(found.path, K("bones")), ParserOf(format_version)),
         LAMBDA bones :
    Ok([data |-> data,
        format_version |-> format_version,
        geometry_path |-> found.path,
        description |-> description,
        bones |-> bones])))))

(***************************************************************************)
(* mathutils and numpy: vectors, 3x3 matrices, rigid transformations       *)
(*                                                                         *)
(* A length is a whole number of 1/One units.  An angle is a whole number  *)
(* of degrees and a multiple of 90, so that the rotation matrices have the *)
(* entries -1, 0 and 1.  A 4x4 matrix of Blender with scale (1, 1, 1) is   *)
(* the record [m, t] of its rotation part and its translation.             *)
(***************************************************************************)
Zero == <<0, 0, 0>>
VAdd(u, v) == [i \in 1..3 |-> u[i] + v[i]]
VSub(u, v) == [i \in 1..3 |-> u[i] - v[i]]
VNeg(u) == [i \in 1..3 |-> 0 - u[i]]
VScale(u, n) == [i \in 1..3 |-> u[i] * n]
VDiv(u, n) == [i \in 1..3 |-> u[i] \div n]

\* numpy: a[[0, 2, 1]], mathutils: v.xzy
Xzy(v) == <<v[1], v[3], v[2]>>

Identity3 == <<<<1, 0, 0>>, <<0, 1, 0>>, <<0, 0, 1>>>>
MulMV(m, v) ==
    [r \in 1..3 |-> m[r][1] * v[1] + m[r][2] * v[2] + m[r][3] * v[3]]
MulMM(a, b) ==
    [r \in 1..3 |-> [c \in 1..3 |->
        a[r][1] * b[1][c] + a[r][2] * b[2][c] + a[r][3] * b[3][c]]]
Transpose(m) == [r \in 1..3 |-> [c \in 1..3 |-> m[c][r]]]

IdentityMatrix == [m |-> Identity3, t |-> Zero]
\* a @ b
MatMul(a, b) == [m |-> MulMM(a.m, b.m), t |-> VAdd(MulMV(a.m, b.t), a.t)]
\* a.inverted()
Inverted(a) ==
    LET back == Transpose(a.m)
    IN  [m |-> back, t |-> VNeg(MulMV(back, a.t))]

\* cos and sin of a multiple of 90 degrees
Cos(deg) == CASE deg % 360 = 0 -> 1 [] deg % 360 = 180 -> -1 [] OTHER -> 0
Sin(deg) == CASE deg % 360 = 90 -> 1 [] deg % 360 = 270 -> -1 [] OTHER -> 0

\* the axes and the parity of the rotation order 'XZY'
XZY == [i |-> 1, j |-> 3, k |-> 2]

\* mathutils.Euler((x, y, z), 'XZY').to_matrix()
EulerToMatrix(e) ==
    LET ti == 0 - e[XZY.i]
        tj == 0 - e[XZY.j]
        th == 0 - e[XZY.k]
        ci == Cos(ti)  cj == Cos(tj)  ch == Cos(th)
        si == Sin(ti)  sj == Sin(tj)  sh == Sin(th)
        cc == ci * ch  cs == ci * sh  sc == si * ch  ss == si * sh
        row(a) ==
            CASE a = XZY.i -> [b \in 1..3 |->
                    CASE b = XZY.i -> cj * ch
                      [] b = XZY.j -> sj * sc - cs
                      [] b = XZY.k -> sj * cc + ss]
              [] a = XZY.j -> [b \in 1..3 |->
                    CASE b = XZY.i -> cj * sh
                      [] b = XZY.j -> sj * ss + cc
                      [] b = XZY.k -> sj * cs - sc]
              [] a = XZY.k -> [b \in 1..3 |->
                    CASE b = XZY.i -> 0 - sj
                      [] b = XZY.j -> cj * si
                      [] b = XZY.k -> cj * ci]
    IN  [a \in 1..3 |-> row(a)]

\* atan2(y, x) in degrees for y, x in {-1, 0, 1}; half is what it gives
\* for a zero y and a negative x: 180 for +0.0 and -180 for -0.0
Atan2(y, x, half) ==
    CASE y = 0 /\ x >= 0 -> 0
      [] y = 0 /\ x < 0 -> half
      [] y > 0 /\ x = 0 -> 90
      [] y < 0 /\ x = 0 -> -90
      [] y > 0 /\ x > 0 -> 45
      [] y > 0 /\ x < 0 -> 135
      [] y < 0 /\ x > 0 -> -45
      [] y < 0 /\ x < 0 -> -135

Abs(n) == IF n < 0 THEN 0 - n ELSE n

\* matrix.to_euler('XZY'): of the two decompositions the one with the
\* lower sum of absolute angles, the first one when the sums are equal
MatrixToEuler(m, half) ==
    LET i == XZY.i  j == XZY.j  k == XZY.k
        \* mat[a][b] of the library is the entry of column a and row b
        mat(a, b) == m[b][a]
        cy == IF mat(i, i) # 0 \/ mat(i, j) # 0 THEN 1 ELSE 0
        eul1 == IF cy > 0
                THEN [a \in 1..3 |->
                        CASE a = i -> Atan2(mat(j, k), mat(k, k), half)
                          [] a = j -> Atan2(0 - mat(i, k), cy, half)
                          [] a = k -> Atan2(mat(i, j), mat(i, i), half)]
                ELSE [a \in 1..3 |->
                        CASE a = i -> Atan2(0 - mat(k, j), mat(j, j), half)
                          [] a = j -> Atan2(0 - mat(i, k), cy, half)
                          [] a = k -> 0]
        eul2 == IF cy > 0
                THEN [a \in 1..3 |->
                        CASE a = i -> Atan2(0 - mat(j, k), 0 - mat(k, k), half)
                          [] a = j -> Atan2(0 - mat(i, k), 0 - cy, half)
                          [] a = k -> Atan2(0 - mat(i, j), 0 - mat(i, i), half)]
                ELSE eul1
        d1 == Abs(eul1[1]) + Abs(eul1[2]) + Abs(eul1[3])
        d2 == Abs(eul2[1]) + Abs(eul2[2]) + Abs(eul2[3])
    IN  VNeg(IF d1 > d2 THEN eul2 ELSE eul1)

(***************************************************************************)
(* importer.py: ImportLocator, ImportCube, ImportBone, ImportGeometry      *)
(***************************************************************************)
\* tuple(data[key]) of a list of numbers
Tuple(list) == [i \in 1..Len(list.v) |-> NumberOf(list.v[i])]

\* blend_empty and blend_cube are places in the objects of the scene, 0 for
\* None
ImportLocator(name, position) ==
    [name |-> name, position |-> position, blend_empty |-> 0]

ImportCube(data) ==
    [blend_cube |-> 0,
     uv |-> Tuple(data.uv),
     mirror |-> data.mirror.v,
     origin |-> Tuple(data.origin),
     pivot |-> Tuple(data.pivot),
     size |-> Tuple(data.size),
     rotation |-> Tuple(data.rotation)]

ImportBone(data) ==
    [blend_empty |-> 0,
     name |-> data.name.v,
     parent |-> data.parent,
     cubes |-> [i \in 1..Len(data.cubes) |-> ImportCube(data.cubes[i])],
     locators |-> [i \in 1..Len(data.locators) |->
                      ImportLocator(data.locators[i][1],
                                    Tuple(data.locators[i][2]))],
     pivot |-> Tuple(data.pivot),
     rotation |-> Tuple(data.rotation),
     mirror |-> data.mirror.v]

\* d[key] = value on a dict of ImportBone kept as the sequence of its
\* values in insertion order: a key that is there keeps its place
SetBone(bones, bone) ==
    IF \E i \in 1..Len(bones) : bones[i].name = bone.name
    THEN [i \in 1..Len(bones) |->
             IF bones[i].name = bone.name THEN bone ELSE bones[i]]
    ELSE Append(bones, bone)

\* the loop of ImportGeometry.__init__ from the i-th loaded bone on
RECURSIVE ReadBones(_, _, _)
ReadBones(loaded, i, bones) ==
    IF i > Len(loaded) THEN bones
    ELSE ReadBones(loaded, i+1, SetBone(bones, ImportBone(loaded[i])))

ImportGeometry(ldr) ==
    [identifier |-> ldr.description.identifier,
     texture_width |-> PyIntOf(ldr.description.texture_width),
     texture_height |-> PyIntOf(ldr.description.texture_height),
     bones |-> ReadBones(ldr.bones, 1, <<>>)]

\* self.bones[name] and name in self.bones, as places in self.bones
BoneCalled(bones, name) ==
    IF \E i \in 1..Len(bones) : bones[i].name = name
    THEN CHOOSE i \in 1..Len(bones) : bones[i].name = name
    ELSE 0

(***************************************************************************)
(* Blender: the objects of the scene                                       *)
(*   name, type, location, rotation (rotation_euler as the matrix it       *)
(*   stands for), parent (a place in the scene, 0 for None),               *)
(*   matrix_parent_inverse, vertices (of the mesh), props (the keys of the *)
(*   custom properties)                                                    *)
(* The UV layer of a mesh, which _set_uv writes and nothing here reads, is *)
(* left out.                                                               *)
(***************************************************************************)
MaxSuffix == 9

Suffix(n) == <<".", "0", "0">> \o NatToStr(n)

\* Blender keeps the names of the objects distinct: a name that is taken
\* gets the first suffix .001, .002, ... that is free
UniqueName(objs, except, wanted) ==
    LET taken(name) ==
            \E i \in 1..Len(objs) : i # except /\ objs[i].name = name
    IN  IF ~taken(wanted) THEN wanted
        ELSE LET n == CHOOSE n \in 1..MaxSuffix :
                         /\ ~taken(wanted \o Suffix(n))
                         /\ \A k \in 1..(n-1) : taken(wanted \o Suffix(k))
             IN  wanted \o Suffix(n)

NewObject(objs, type, name, vertices) ==
    [name |-> UniqueName(objs, 0, name),
     type |-> type,
     location |-> Zero,
     rotation |-> Identity3,
     parent |-> 0,
     matrix_parent_inverse |-> IdentityMatrix,
     vertices |-> vertices,
     props |-> {}]

\* the corners of a cube, in the order of the vertices of the mesh:
\* 0. ---; 1. --+; 2. -+-; 3. -++; 4. +--; 5. +-+; 6. ++- 7. +++
Corners ==
    << <<-1, -1, -1>>, <<-1, -1, 1>>, <<-1, 1, -1>>, <<-1, 1, 1>>,
       <<1, -1, -1>>, <<1, -1, 1>>, <<1, 1, -1>>, <<1, 1, 1>> >>

Times(u, v) == [i \in 1..3 |-> u[i] * v[i]]

\* bpy.ops.object.empty_add(type='SPHERE', location=(0, 0, 0))
empty_add(objs) == NewObject(objs, "EMPTY", <<"E", "m", "p", "t", "y">>, <<>>)

\* bpy.ops.mesh.primitive_cube_add(size=1, location=(0, 0, 0))
primitive_cube_add(objs) ==
    NewObject(objs, "MESH", <<"C", "u", "b", "e">>,
              [n \in 1..8 |-> VScale(Corners[n], One \div 2)])

\* obj.name = name
Rename(objs, i, name) ==
    [objs EXCEPT ![i].name = UniqueName(objs, i, name)]

\* obj.matrix_world after context.view_layer.update()
RECURSIVE matrix_world(_, _)
matrix_world(objs, i) ==
    LET local == [m |-> objs[i].rotation, t |-> objs[i].location]
    IN  IF objs[i].parent = 0 THEN local
        ELSE MatMul(MatMul(matrix_world(objs, objs[i].parent),
                           objs[i].matrix_parent_inverse), local)

\* a is i or one of the objects above i
RECURSIVE IsAbove(_, _, _)
IsAbove(objs, a, i) ==
    \/ a = i
    \/ objs[i].parent # 0 /\ IsAbove(objs, a, objs[i].parent)

\* obj.parent = parent_obj: Blender refuses a parent that would close a
\* loop and leaves the object without parent
SetParent(objs, i, parent) ==
    [objs EXCEPT ![i].parent = IF IsAbove(objs, i, parent) THEN 0 ELSE parent]

(***************************************************************************)
(* importer.py: _mc_translate, _mc_set_size, _mc_pivot, _mc_rotate         *)
(***************************************************************************)
_mc_translate(obj, mctranslation, mcsize, mcpivot) ==
    LET pivot_offset == VDiv(Xzy(mcpivot), MINECRAFT_SCALE_FACTOR)
        size_offset == VDiv(VDiv(Xzy(mcsize), 2), MINECRAFT_SCALE_FACTOR)
        translation == VDiv(Xzy(mctranslation), MINECRAFT_SCALE_FACTOR)
    IN  [obj EXCEPT !.vertices =
            [n \in 1..Len(obj.vertices) |->
                VAdd(obj.vertices[n],
                     VAdd(VSub(translation, pivot_offset), size_offset))]]

_mc_set_size(obj, mcsize) ==
    LET pos_delta == VDiv(VDiv(Xzy(mcsize), 2), MINECRAFT_SCALE_FACTOR)
    IN  [obj EXCEPT !.vertices = [n \in 1..8 |-> Times(pos_delta, Corners[n])]]

_mc_pivot(obj, mcpivot) ==
    [obj EXCEPT !.location =
        VAdd(obj.location, VDiv(Xzy(mcpivot), MINECRAFT_SCALE_FACTOR))]

\* the angles of a rotation in degrees
Degrees(mcrotation) == VDiv(mcrotation, One)

_mc_rotate(obj, mcrotation) ==
    LET rotation == EulerToMatrix(Times(Xzy(Degrees(mcrotation)), <<1, 1, -1>>))
    IN  [obj EXCEPT !.rotation = MulMM(rotation, obj.rotation)]

(***************************************************************************)
(* importer.py: ImportGeometry.build                                       *)
(* The phases work on the record [objects, bones] of the objects of the    *)
(* scene and self.bones.                                                   *)
(***************************************************************************)
\* obj[key] = {}
SetProp(obj, key) == [obj EXCEPT !.props = @ \cup {key}]

\* the loop over bone.cubes of the first phase from the c-th cube on
RECURSIVE CreateCubes(_, _, _)
CreateCubes(st, b, c) ==
    IF c > Len(st.bones[b].cubes) THEN st
    ELSE LET cube == st.bones[b].cubes[c]
             spawned == primitive_cube_add(st.objects)
             marked == IF cube.mirror THEN SetProp(spawned, "mc_mirror")
                       ELSE spawned
             cube_obj ==
                 _mc_translate(
                     _mc_pivot(_mc_set_size(marked, cube.size), cube.pivot),
                     cube.origin, cube.size, cube.pivot)
         IN  CreateCubes(
                 [objects |-> Append(st.objects, cube_obj),
                  bones |-> [st.bones EXCEPT
                                ![b].cubes[c].blend_cube = Len(st.objects) + 1]],
                 b, c + 1)

\* the loop over bone.locators of the first phase from the l-th locator on
RECURSIVE CreateLocators(_, _, _)
CreateLocators(st, b, l) ==
    IF l > Len(st.bones[b].locators) THEN st
    ELSE LET locator == st.bones[b].locators[l]
             locator_obj == _mc_pivot(empty_add(st.objects), locator.position)
             at == Len(st.objects) + 1
         IN  CreateLocators(
                 [objects |-> Rename(Append(st.objects, locator_obj), at,
                                     locator.name),
                  bones |-> [st.bones EXCEPT
                                ![b].locators[l].blend_empty = at]],
                 b, l + 1)

\* Create objects - and set their pivots: from the b-th bone on
RECURSIVE CreateObjects(_, _)
CreateObjects(st, b) ==
    IF b > Len(st.bones) THEN st
    ELSE LET bone == st.bones[b]
             bone_obj == SetProp(_mc_pivot(empty_add(st.objects), bone.pivot),
                                 "mc_is_bone")
             at == Len(st.objects) + 1
             with_bone ==
                 [objects |-> Rename(Append(st.objects, bone_obj), at,
                                     bone.name),
                  bones |-> [st.bones EXCEPT ![b].blend_empty = at]]
         IN  CreateObjects(
                 CreateLocators(CreateCubes(with_bone, b, 1), b, 1), b + 1)

\* the parenting of a scene that takes every parent as it is given
ParentWithoutLoopCheck(objs, child, parent_obj) ==
    [objs EXCEPT ![child].parent = parent_obj,
                 ![child].matrix_parent_inverse = IdentityMatrix]

\* a parenting that leaves matrix_parent_inverse as it is
ParentWithoutInverse(objs, child, parent_obj) ==
    SetParent(objs, child, parent_obj)

\* child.parent = parent_obj
\* child.matrix_parent_inverse = parent_obj.matrix_world.inverted()
\* the world matrix of the parent is the one of the last update of the view
\* layer, which comes before the assignment
ParentKeepTransform(objs, child, parent_obj) ==
    LET inverse == Inverted(matrix_world(objs, parent_obj))
    IN  [SetParent(objs, child, parent_obj) EXCEPT
            ![child].matrix_parent_inverse = inverse]

\* a parenting phase that leaves the cubes and the locators to a later one
ParentNoChildren(objs, children, n, bone_obj) == objs

\* the children of a bone from the n-th on
RECURSIVE ParentChildren(_, _, _, _)
ParentChildren(objs, children, n, bone_obj) ==
    IF n > Len(children) THEN objs
    ELSE ParentChildren(ParentKeepTransform(objs, children[n], bone_obj),
                        children, n + 1, bone_obj)

\* Parent objects (keep offset): from the b-th bone on
RECURSIVE ParentObjects(_, _)
ParentObjects(st, b) ==
    IF b > Len(st.bones) THEN st
    ELSE LET bone == st.bones[b]
             bone_obj == bone.blend_empty
             parent == IF bone.parent = None THEN 0
                       ELSE BoneCalled(st.bones, bone.parent.v)
             with_parent ==
                 IF parent # 0
                 THEN ParentKeepTransform(st.objects, bone_obj,
                                          st.bones[parent].blend_empty)
                 ELSE st.objects
             children ==
                 [c \in 1..Len(bone.cubes) |-> bone.cubes[c].blend_cube]
                 \o [l \in 1..Len(bone.locators) |->
                        bone.locators[l].blend_empty]
         IN  ParentObjects(
                 [st EXCEPT !.objects =
                     ParentChildren(with_parent, children, 1, bone_obj)],
                 b + 1)

\* the loop over bone.cubes of the last phase from the c-th cube on
RECURSIVE RotateCubes(_, _, _)
RotateCubes(objs, cubes, c) ==
    IF c > Len(cubes) THEN objs
    ELSE RotateCubes(
             [objs EXCEPT ![cubes[c].blend_cube] =
                 _mc_rotate(@, cubes[c].rotation)],
             cubes, c + 1)

\* Rotate objects: from the b-th bone on
RECURSIVE RotateObjects(_, _)
RotateObjects(st, b) ==
    IF b > Len(st.bones) THEN st
    ELSE LET bone == st.bones[b]
             rotated == [st.objects EXCEPT ![bone.blend_empty] =
                            _mc_rotate(@, bone.rotation)]
         IN  RotateObjects(
                 [st EXCEPT !.objects = RotateCubes(rotated, bone.cubes, 1)],
                 b + 1)

(***************************************************************************)
(* common.py: the properties of the objects of the scene                   *)
(* ObjectId is the place of the object in the scene (Blender keeps the     *)
(* names distinct), 0 stands for None.  The scene holds no armature.       *)
(***************************************************************************)
\* len(obj.children)
NumberOfChildren(objs, i) ==
    Cardinality({c \in 1..Len(objs) : objs[c].parent = i})

\* every parent of the scene is of parent_type 'OBJECT'
RECURSIVE get_parent_mc_bone(_, _)
get_parent_mc_bone(objs, i) ==
    LET up == objs[i].parent
    IN  IF up = 0 THEN 0
        ELSE IF objs[up].type = "EMPTY" \/ "mc_is_bone" \in objs[up].props
        THEN up
        ELSE IF objs[up].parent = 0 THEN up
        ELSE get_parent_mc_bone(objs, up)

\* a classification that takes the empty without parent for the locator
McTypeOfLooseLocator(objs, i) ==
    LET obj == objs[i]
    IN  IF obj.type = "EMPTY"
        THEN IF /\ obj.parent = 0
                /\ NumberOfChildren(objs, i) = 0
                /\ "mc_is_bone" \notin obj.props
             THEN "LOCATOR" ELSE "BONE"
        ELSE IF obj.parent = 0 \/ "mc_is_bone" \in obj.props
             THEN "BOTH" ELSE "CUBE"

\* the first loop of get_object_mcproperties for one object
McType(objs, i) ==
    LET obj == objs[i]
    IN  IF obj.type = "EMPTY"
        THEN IF /\ obj.parent # 0
                /\ NumberOfChildren(objs, i) = 0
                /\ "mc_is_bone" \notin obj.props
             THEN "LOCATOR" ELSE "BONE"
        ELSE IF obj.parent = 0 \/ "mc_is_bone" \in obj.props
             THEN "BOTH" ELSE "CUBE"

McParent(objs, i) ==
    IF objs[i].type = "MESH" /\ McType(objs, i) = "BOTH" THEN 0
    ELSE get_parent_mc_bone(objs, i)

\* the objects of a set of places of the scene in the order of the scene
RECURSIVE InOrder(_, _)
InOrder(places, n) ==
    IF n = 0 THEN <<>>
    ELSE InOrder(places, n - 1) \o (IF n \in places THEN <<n>> ELSE <<>>)

\* selected is context.selected_objects: the places of the selected
\* objects, in the order the loops go through them; the dict is kept as the
\* function from the ids to the properties, its order being that of selected
get_object_mcproperties(objs, selected) ==
    [i \in {selected[n] : n \in 1..Len(selected)} |->
        [thisobj_id |-> i,
         mcparent |-> McParent(objs, i),
         mcchildren |->
             SelectSeq(selected, LAMBDA c : McParent(objs, c) = i),
         mctype |-> McType(objs, i)]]

\* ObjectMcProperties.name: thisobj.name.split('.')[0]
ObjectName(objs, objprop) == Split(objs[objprop.thisobj_id].name, ".")[1]

\* obj.bound_box: the corners of the box around the vertices of the mesh,
\* the lowest corner at 0 and the highest at 6; all zero for an empty
bound_box(obj) ==
    LET coords(axis) == {obj.vertices[n][axis] : n \in 1..Len(obj.vertices)}
        low(axis) == CHOOSE x \in coords(axis) : \A y \in coords(axis) : x <= y
        high(axis) == CHOOSE x \in coords(axis) : \A y \in coords(axis) : x >= y
    IN  IF Len(obj.vertices) = 0 THEN [n \in 0..7 |-> Zero]
        ELSE [n \in 0..7 |->
                 [axis \in 1..3 |->
                     IF Corners[IF n = 6 THEN 8 ELSE 1][axis] > 0
                     THEN high(axis) ELSE low(axis)]]

(***************************************************************************)
(* common.py: get_vect_json, get_local_matrix, get_mcrotation,             *)
(* get_mcube_size, get_mccube_position, get_mcpivot                        *)
(***************************************************************************)
\* round(x, digits) of a number of 1/One units: to the nearest multiple of
\* step, a tie to the even multiple
RoundTo(x, step) ==
    LET low == (x \div step) * step
        rest == x - low
    IN  IF 2 * rest < step THEN low
        ELSE IF 2 * rest > step THEN low + step
        ELSE IF (low \div step) % 2 = 0 THEN low ELSE low + step

\* float(x).is_integer() decides between int and float
get_vect_json(arr) ==
    PyList([n \in 1..Len(arr) |->
               LET result == RoundTo(arr[n], One \div 1000)
               IN  [t |-> IF result % One = 0 THEN "int" ELSE "float",
                    v |-> result]])

get_local_matrix(parent_world_matrix, child_world_matrix) ==
    MatMul(Inverted(parent_world_matrix), child_world_matrix)

\* parent_matrix is None where there is no parent; half is the sign the
\* arithmetic leaves on a zero
get_mcrotation(child_matrix, parent_matrix, half) ==
    LET result ==
            IF parent_matrix # None
            THEN MatrixToEuler(MulMM(Transpose(parent_matrix.m),
                                     child_matrix.m), half)
            ELSE MatrixToEuler(child_matrix.m, half)
    IN  VScale(Times(Xzy(result), <<1, -1, 1>>), One)

get_mcube_size(obj) == Xzy(VSub(bound_box(obj)[6], bound_box(obj)[0]))

get_mccube_position(obj) == Xzy(bound_box(obj)[0])

\* a pivot that leaves the parents out
WorldTranslation(objs, objprop, object_properties) ==
    matrix_world(objs, objprop.thisobj_id).t

\* normalized() leaves a matrix without scale as it is
RECURSIVE _get_mcpivot(_, _, _)
_get_mcpivot(objs, objprop, object_properties) ==
    IF objprop.mcparent # 0
    THEN VAdd(get_local_matrix(matrix_world(objs, objprop.mcparent),
                               matrix_world(objs, objprop.thisobj_id)).t,
              _get_mcpivot(objs, object_properties[objprop.mcparent],
                           object_properties))
    ELSE matrix_world(objs, objprop.thisobj_id).t

get_mcpivot(objs, objprop, object_properties) ==
    Xzy(_get_mcpivot(objs, objprop, object_properties))

(***************************************************************************)
(* model.py: get_mcbone_json, get_mcmodel_json                             *)
(* No object of the scene has a scale other than (1, 1, 1), and none holds *)
(* mc_uv or mc_inflate: nothing in the import sets them.                   *)
(***************************************************************************)
\* round(i): an int stays, a float goes to the nearest int, a tie to the
\* even one
Round(number) == [t |-> "int", v |-> RoundTo(number.v, One)]

\* [i if i != -180 else 180 for i in ...]
FixRotation(list) ==
    PyList([n \in 1..Len(list.v) |->
               IF list.v[n].v = (0 - 180) * One
               THEN [list.v[n] EXCEPT !.v = 180 * One] ELSE list.v[n]])

cube_dict(objs, cubeprop, boneprop, object_properties, half) ==
    LET cube_obj == objs[cubeprop.thisobj_id]
        c_size == VScale(get_mcube_size(cube_obj), MINECRAFT_SCALE_FACTOR)
        c_pivot == VScale(get_mcpivot(objs, cubeprop, object_properties),
                          MINECRAFT_SCALE_FACTOR)
        c_origin == VAdd(c_pivot, VScale(get_mccube_position(cube_obj),
                                         MINECRAFT_SCALE_FACTOR))
        c_rot == get_mcrotation(matrix_world(objs, cubeprop.thisobj_id),
                                matrix_world(objs, boneprop.thisobj_id), half)
        uv == <<0, 0>>
        size == get_vect_json(c_size)
    IN  PyDict(<< <<"uv", get_vect_json(uv)>>,
                  <<"size", PyList([n \in 1..3 |-> Round(size.v[n])])>>,
                  <<"origin", get_vect_json(c_origin)>>,
                  <<"pivot", get_vect_json(c_pivot)>>,
                  <<"rotation", FixRotation(get_vect_json(c_rot))>> >>
               \o IF "mc_mirror" \in cube_obj.props
                  THEN << <<"mirror", PyBool(TRUE)>> >> ELSE <<>>)

locator_item(objs, locatorprop, object_properties) ==
    LET l_pivot == VScale(get_mcpivot(objs, locatorprop, object_properties),
                          MINECRAFT_SCALE_FACTOR)
        l_origin == VAdd(l_pivot,
                         VScale(get_mccube_position(objs[locatorprop.thisobj_id]),
                                MINECRAFT_SCALE_FACTOR))
    IN  <<ObjectName(objs, locatorprop), get_vect_json(l_origin)>>

\* d[key] = value on a dict kept as its pairs
SetItem(pairs, item) ==
    IF \E n \in 1..Len(pairs) : pairs[n][1] = item[1]
    THEN [n \in 1..Len(pairs) |->
             IF pairs[n][1] = item[1] THEN item ELSE pairs[n]]
    ELSE Append(pairs, item)

RECURSIVE SetItems(_, _)
SetItems(pairs, items) ==
    IF Len(items) = 0 THEN pairs
    ELSE SetItems(SetItem(pairs, Head(items)), Tail(items))

\* object_properties[objprop.mcparent] of get_mcbone_json and of
\* _get_mcpivot: the first mcparent above objprop that is not among the
\* properties, for which the lookup raises KeyError; 0 when there is none
RECURSIVE MissingParent(_, _)
MissingParent(objprop, object_properties) ==
    IF objprop.mcparent = 0 THEN 0
    ELSE IF objprop.mcparent \notin DOMAIN object_properties
    THEN objprop.mcparent
    ELSE MissingParent(object_properties[objprop.mcparent], object_properties)

get_mcbone_json(objs, boneprop, cubeprops, locatorprops, object_properties, half) ==
    LET b_rot ==
            get_mcrotation(
                matrix_world(objs, boneprop.thisobj_id),
                IF boneprop.mcparent # 0
                THEN matrix_world(objs, boneprop.mcparent) ELSE None,
                half)
        b_pivot == VScale(get_mcpivot(objs, boneprop, object_properties),
                          MINECRAFT_SCALE_FACTOR)
        cubes == [n \in 1..Len(cubeprops) |->
                     cube_dict(objs, cubeprops[n], boneprop,
                               object_properties, half)]
        locators == [n \in 1..Len(locatorprops) |->
                        locator_item(objs, locatorprops[n], object_properties)]
    IN  IF MissingParent(boneprop, object_properties) # 0
        THEN Raise(KeyError(MissingParent(boneprop, object_properties)))
        ELSE
        Ok(PyDict(<< <<"name", PyStr(ObjectName(objs, boneprop))>>,
                     <<"cubes", PyList(cubes)>> >>
               \o (IF boneprop.mcparent # 0
                   THEN << <<"parent",
                             PyStr(ObjectName(objs,
                                        object_properties[boneprop.mcparent]))>> >>
                   ELSE <<>>)
               \o << <<"pivot", get_vect_json(b_pivot)>>,
                     <<"rotation", get_vect_json(b_rot)>> >>
               \o (IF Len(locatorprops) > 0
                   THEN << <<"locators", PyDict(SetItems(<<>>, locators))>> >>
                   ELSE <<>>)))

get_mcmodel_json(model_name, mc_bones, texture_width, texture_height) ==
    PyDict(<< <<K_format_version, PyStr(V_1_12_0)>>,
              <<K_minecraft_geometry,
                PyList(<< PyDict(<<
                    <<"description",
                      PyDict(<< <<"identifier", PyStr(GeometryDot \o model_name)>>,
                                <<"texture_width", texture_width>>,
                                <<"texture_height", texture_height>>,
                                <<"visible_bounds_width", PyInt(10)>>,
                                <<"visible_bounds_height", PyInt(10)>>,
                                <<"visible_bounds_offset", PyList(<<PyInt(0), PyInt(2), PyInt(0)>>)>> >>)>>,
                    <<"bones", PyList(mc_bones)>> >>) >>)>> >>)

\* the loop of get_name_conflicts over the values of the dict from the n-th
\* on; names are the names seen so far
RECURSIVE NameConflictsFrom(_, _, _, _)
NameConflictsFrom(objs, values, n, names) ==
    IF n > Len(values) THEN <<>>
    ELSE IF values[n].mctype \notin {"BONE", "BOTH"}
    THEN NameConflictsFrom(objs, values, n + 1, names)
    ELSE IF ObjectName(objs, values[n]) \in names
    THEN ObjectName(objs, values[n])
    ELSE NameConflictsFrom(objs, values, n + 1,
                           names \cup {ObjectName(objs, values[n])})

\* selected gives the order of the dict
get_name_conflicts(objs, selected, object_properties) ==
    NameConflictsFrom(objs,
                      [n \in 1..Len(selected) |-> object_properties[selected[n]]],
                      1, {})

(***************************************************************************)
(* operator_func/__init__.py: export_model                                 *)
(***************************************************************************)
\* the children of an object that are of one type
ChildrenOfType(objprop, object_properties, mctype) ==
    SelectSeq([n \in 1..Len(objprop.mcchildren) |->
                  object_properties[objprop.mcchildren[n]]],
              LAMBDA child : child.mctype = mctype)

\* the loop of export_model over the bones from the n-th on
RECURSIVE ExportBones(_, _, _, _, _, _)
ExportBones(objs, bones, n, object_properties, half, mc_bones) ==
    IF n > Len(bones) THEN Ok(mc_bones)
    ELSE Bind(get_mcbone_json(
                  objs, bones[n],
                  (IF bones[n].mctype = "BOTH" THEN <<bones[n]>> ELSE <<>>)
                  \o ChildrenOfType(bones[n], object_properties, "CUBE"),
                  ChildrenOfType(bones[n], object_properties, "LOCATOR"),
                  object_properties, half),
              LAMBDA mcbone :
                  ExportBones(objs, bones, n + 1, object_properties, half,
                              Append(mc_bones, mcbone)))

\* the objects of the selection of mctype BONE alone
BonesOnly(selected, object_properties) ==
    SelectSeq([n \in 1..Len(selected) |-> object_properties[selected[n]]],
              LAMBDA objprop : objprop.mctype = "BONE")

\* the objects of the selection that make a bone
BonesOf(selected, object_properties) ==
    SelectSeq([n \in 1..Len(selected) |-> object_properties[selected[n]]],
              LAMBDA objprop : objprop.mctype \in {"BONE", "BOTH"})

export_model(objs, selected, nusiq_bmodel, half) ==
    Bind(ExportBones(objs,
                     BonesOf(selected, get_object_mcproperties(objs, selected)),
                     1, get_object_mcproperties(objs, selected), half, <<>>),
         LAMBDA mc_bones :
             Ok(get_mcmodel_json(nusiq_bmodel.model_name, mc_bones,
                                 nusiq_bmodel.texture_width,
                                 nusiq_bmodel.texture_height)))

(***************************************************************************)
(* common.py: pick_closest_rotation                                        *)
(* The vectors hold whole degrees.  A distance is kept as its square,      *)
(* which orders the distances as np.linalg.norm does.                      *)
(***************************************************************************)
Distance(choice, close_to) ==
    (choice[1] - close_to[1]) * (choice[1] - close_to[1])
    + (choice[2] - close_to[2]) * (choice[2] - close_to[2])
    + (choice[3] - close_to[3]) * (choice[3] - close_to[3])

\* arr = np.zeros(3); arr[i] = 360
Arr(i) == [a \in 1..3 |-> IF a = i THEN 360 ELSE 0]

\* while choice[i] < close_to[i]: ...
RECURSIVE WhileBelow(_, _, _)
WhileBelow(choice, close_to, i) ==
    IF choice[i] < close_to[i]
    THEN IF Distance(VAdd(choice, Arr(i)), close_to)
                > Distance(choice, close_to)
         THEN choice
         ELSE WhileBelow(VAdd(choice, Arr(i)), close_to, i)
    ELSE choice

\* the second loop leaving on a step that does not bring the vector closer
RECURSIVE WhileAboveUnlessCloser(_, _, _)
WhileAboveUnlessCloser(choice, close_to, i) ==
    IF choice[i] > close_to[i]
    THEN IF Distance(VSub(choice, Arr(i)), close_to)
                >= Distance(choice, close_to)
         THEN choice
         ELSE WhileAboveUnlessCloser(VSub(choice, Arr(i)), close_to, i)
    ELSE choice

\* while choice[i] > close_to[i]: ...
RECURSIVE WhileAbove(_, _, _)
WhileAbove(choice, close_to, i) ==
    IF choice[i] > close_to[i]
    THEN IF Distance(VSub(choice, Arr(i)), close_to)
                > Distance(choice, close_to)
         THEN choice
         ELSE WhileAbove(VSub(choice, Arr(i)), close_to, i)
    ELSE choice

\* for i in range(3): ..., from the axis i on
RECURSIVE ForAxis(_, _, _)
ForAxis(choice, close_to, i) ==
    IF i > 3 THEN choice
    ELSE ForAxis(WhileAbove(WhileBelow(choice, close_to, i), close_to, i),
                 close_to, i + 1)

_pick_closet_location(modify, close_to) ==
    [distance |-> Distance(ForAxis(modify, close_to, 1), close_to),
     choice |-> ForAxis(modify, close_to, 1)]

\* the other vector without the change of sign
OtherUnmirrored(modify, original_rotation) ==
    VAdd(modify, <<180, 180 + original_rotation[2] * 2, 180>>)

\* the other vector for a bone that is not turned at rest
OtherWithoutRest(modify, original_rotation) ==
    Times(VAdd(modify, <<180, 180, 180>>), <<1, -1, 1>>)

\* (modify + [180, 180 + original_rotation[1] * 2, 180]) * [1, -1, 1]
Other(modify, original_rotation) ==
    Times(VAdd(modify, <<180, 180 + original_rotation[2] * 2, 180>>),
          <<1, -1, 1>>)

\* a choice that takes the other vector when the distances are equal
PickOtherOnTie(modify, close_to, original_rotation) ==
    IF _pick_closet_location(
           Other(modify, IF original_rotation = None THEN <<0, 0, 0>>
                         ELSE original_rotation), close_to).distance
           <= _pick_closet_location(modify, close_to).distance
    THEN _pick_closet_location(
             Other(modify, IF original_rotation = None THEN <<0, 0, 0>>
                           ELSE original_rotation), close_to).choice
    ELSE _pick_closet_location(modify, close_to).choice

\* original_rotation is None when the caller leaves it out
pick_closest_rotation(modify, close_to, original_rotation) ==
    IF _pick_closet_location(
           Other(modify, IF original_rotation = None THEN <<0, 0, 0>>
                         ELSE original_rotation), close_to).distance
           < _pick_closet_location(modify, close_to).distance
    THEN _pick_closet_location(
             Other(modify, IF original_rotation = None THEN <<0, 0, 0>>
                           ELSE original_rotation), close_to).choice
    ELSE _pick_closet_location(modify, close_to).choice
(***************************************************************************)
(* Inputs of pick_version_parser                                           *)
(***************************************************************************)
MaxVersionLen == 4

VersionChars == {"0", "1", "8", "9", ".", "x", "-"}

RECURSIVE StringsUpTo(_, _)
StringsUpTo(chars, n) ==
    IF n = 0 THEN {<<>>}
    ELSE LET shorter == StringsUpTo(chars, n-1)
         IN  shorter \cup {Append(s, c) : s \in shorter, c \in chars}

ParserTuples ==
    { KnownParsers, <<V_1_8_0, V_1_12_0>>, <<V_1_8_0>>, <<V_1_12_0>>, <<>>,
      <<V_1_8_0, V_1_16_0, V_1_10_0>>, <<V_1_10_0, V_1_8_0>> }

VersionInputs ==
    {PyStr(s) : s \in StringsUpTo(VersionChars, MaxVersionLen)
        \cup {V_1_12_0, V_1_8_0, V_1_9_3, V_1_0_0, V_1_16_0, V_1_10_0,
              <<"1", ".", "8", ".", "0", ".", "0">>,
              <<"1", ".", "8", ".", "-", "1">>, <<"1", ".", "1", "1", ".", "9">>,
              <<"2", ".", "0", ".", "0">>, <<"1", ".", "1", "2", ".", "1">>,
              <<"1", ".", "8", ".", "x">>, <<"1", ".", "8", ".", "+", "0">>}}
        \cup {None, PyInt(1), PyFloat(1800)}

InitVersion ==
    /\ pc = "pick_version_parser"
    /\ parsers \in ParserTuples
    /\ version \in VersionInputs
    /\ picked = None
    /\ input = None
    /\ call = None
    /\ loader = None
    /\ raised = None
    /\ imported = None
    /\ objects = <<>>
    /\ exported = None
    /\ selected_objects = <<>>
    /\ mcproperties = None
    /\ frames = <<>>
    /\ pivot = None
    /\ rotations = None
    /\ closest = None
    /\ search = None
    /\ conflict = None
    /\ keyframes = <<>>
    /\ next_keyframe = 0
    /\ prev_rotation = None
    /\ bone_data = None

\* one call of pick_version_parser(parsers, version)
PickVersionParser ==
    /\ pc = "pick_version_parser"
    /\ picked' = pick_version_parser(parsers, version)
    /\ pc' = "returned"
    /\ UNCHANGED <<parsers, version, input, call, loader, raised, imported,
                   objects, exported,
                   selected_objects, mcproperties, frames, pivot, rotations, closest,
                   search, conflict, keyframes, next_keyframe, prev_rotation, bone_data>>

NextVersion == PickVersionParser

SpecVersion == InitVersion /\ [][NextVersion]_vars

(***************************************************************************)
(* Inputs of ModelLoader: documents                                        *)
(*                                                                         *)
(* A document is a well-formed document of a declared version, laid out    *)
(* for the parser of that version, changed in at most one place.  `input`  *)
(* records the declared version, the geometries of the document in order   *)
(* and the change:                                                         *)
(*   at     the object that is changed ("top", "geometry", "description",  *)
(*          "bone_r", "bone_c", "cube", "locators"); the geometry changed  *)
(*          is geometry A                                                  *)
(*   do     "none", "del" (the key is removed) or "set" (the key gets the  *)
(*          value, at its place when the object holds it and at the end    *)
(*          otherwise)                                                     *)
(*   key    the key, as the token it is in a JSON path                     *)
(***************************************************************************)
E(at, do, key, value) == [at |-> at, do |-> do, key |-> key, value |-> value]

NoEdit == E("none", "none", K(""), None)

\* the key a path token stands for
KeyOf(token) == IF "k" \in DOMAIN token THEN token.k ELSE token.s

ApplyEdit(obj, e) ==
    LET key == KeyOf(e.key)
    IN  CASE e.do = "del" ->
               PyDict(SelectSeq(obj.v, LAMBDA p : p[1] # key))
          [] e.do = "set" ->
               IF Has(obj, key)
               THEN PyDict([i \in 1..Len(obj.v) |->
                              IF obj.v[i][1] = key THEN <<key, e.value>>
                              ELSE obj.v[i]])
               ELSE PyDict(Append(obj.v, <<key, e.value>>))

\* obj, changed when it is the object the change is made at
At(loc, edit, obj) == IF edit.at = loc THEN ApplyEdit(obj, edit) ELSE obj

Ints(a, b, c) == PyList(<<PyInt(a), PyInt(b), PyInt(c)>>)
Floats(a, b, c) == PyList(<<PyFloat(a), PyFloat(b), PyFloat(c)>>)

G_a == GeometryDot \o <<"a">>
G_b == GeometryDot \o <<"b">>
G_z == GeometryDot \o <<"z">>

RootCube ==
    PyDict(<< <<"origin", Ints(-2, 0, -2)>>, <<"size", Ints(4, 4, 4)>>,
              <<"uv", PyList(<<PyInt(0), PyInt(0)>>)>> >>)

ChildCube ==
    PyDict(<< <<"origin", Ints(1, 2, 3)>>, <<"size", Floats(1000, 2000, 3000)>>,
              <<"uv", PyList(<<PyInt(8), PyFloat(8000)>>)>>,
              <<"inflate", PyInt(0)>> >>)

RootLocators == PyDict(<< << <<"l">>, Ints(1, 2, 3) >> >>)

\* bone r: mirror comes before cubes
BoneR(edit) ==
    At("bone_r", edit,
       PyDict(<< <<"name", PyStr(<<"r">>)>>,
                 <<"pivot", Ints(0, 8, 0)>>,
                 <<"mirror", PyBool(TRUE)>>,
                 <<"cubes", PyList(<<RootCube>>)>>,
                 <<"locators", At("locators", edit, RootLocators)>> >>))

\* bone c: no mirror; a mirror that is set comes after cubes
BoneC(edit) ==
    At("bone_c", edit,
       PyDict(<< <<"name", PyStr(<<"c">>)>>,
                 <<"parent", PyStr(<<"r">>)>>,
                 <<"pivot", Floats(0, 4500, 0)>>,
                 <<"rotation", Ints(0, 90, 0)>>,
                 <<"cubes", PyList(<<At("cube", edit, ChildCube)>>)>> >>))

BonesA(edit) == PyList(<<BoneR(edit), BoneC(edit)>>)
BonesB == PyList(<< PyDict(<< <<"name", PyStr(<<"b">>)>> >>) >>)
\* a second geometry called geometry.a
BonesA2 == PyList(<< PyDict(<< <<"name", PyStr(<<"a", "2">>)>> >>) >>)

Geometry_1_12(g, edit) ==
    CASE g = "A" ->
           At("geometry", edit,
              PyDict(<< <<"description",
                          At("description", edit,
                             PyDict(<< <<"identifier", PyStr(G_a)>>,
                                       <<"texture_width", PyInt(32)>>,
                                       <<"texture_height", PyFloat(16500)>>,
                                       <<"visible_bounds_width", PyInt(2)>> >>))>>,
                        <<"bones", BonesA(edit)>> >>))
      [] g = "B" ->
           PyDict(<< <<"description",
                       PyDict(<< <<"identifier", PyStr(G_b)>> >>)>>,
                     <<"bones", BonesB>> >>)
      [] g = "A2" ->
           PyDict(<< <<"description",
                       PyDict(<< <<"identifier", PyStr(G_a)>> >>)>>,
                     <<"bones", BonesA2>> >>)

Document_1_12(in) ==
    At("top", in.edit,
       PyDict(<< <<K_format_version, PyStr(in.version)>>,
                 <<K_minecraft_geometry,
                   PyList([i \in 1..Len(in.layout) |->
                              Geometry_1_12(in.layout[i], in.edit)])>> >>))

Geometry_1_8(g, edit) ==
    CASE g = "A" ->
           << G_a,
              At("geometry", edit,
                 PyDict(<< <<"texturewidth", PyInt(32)>>,
                           <<"textureheight", PyFloat(16500)>>,
                           <<"visible_bounds_width", PyInt(2)>>,
                           <<"bones", BonesA(edit)>> >>)) >>
      [] g = "B" ->
           << G_b, PyDict(<< <<"bones", BonesB>> >>) >>

Document_1_8(in) ==
    At("top", in.edit,
       PyDict(<< <<K_format_version, PyStr(in.version)>> >>
              \o [i \in 1..Len(in.layout) |->
                     Geometry_1_8(in.layout[i], in.edit)]))

Document(in) ==
    IF ParserOf(PyStr(in.version)) = V_1_12_0
    THEN Document_1_12(in) ELSE Document_1_8(in)

(***************************************************************************)
(* The changes                                                             *)
(***************************************************************************)
\* the keys of the top-level object and of a locators object are kept as
\* characters
Token(at, key) == IF at \in {"top", "locators"} THEN S(key) ELSE K(key)

Del(at, keys) == {E(at, "del", Token(at, k), None) : k \in keys}
Set(at, keys, values) ==
    {E(at, "set", Token(at, k), v) : k \in keys, v \in values}

TopEdits ==
    Del("top", {K_format_version, K_minecraft_geometry})
    \cup Set("top", {K_cape, K_debug, <<"x">>}, {PyBool(TRUE)})
    \cup Set("top", {K_format_version},
             {None, PyInt(1), PyStr(V_1_0_0), PyStr(<<"1", ".", "x">>)})
    \cup Set("top", {K_minecraft_geometry, G_z}, {PyInt(1)})

GeometryEdits ==
    Del("geometry", {"bones", "description"})
    \cup Set("geometry", {"x", "cape", "debug"}, {PyBool(TRUE)})
    \cup Set("geometry", {"cape", "debug", "bones", "texturewidth", "textureheight",
                          "visible_bounds_offset", "visible_bounds_width",
                          "visible_bounds_height"},
             {PyStr(<<"x">>)})
    \cup Set("geometry", {"visible_bounds_offset"}, {Ints(0, 1, 0)})
    \cup Del("geometry", {"texturewidth", "textureheight",
                          "visible_bounds_width"})

DescriptionEdits ==
    Del("description", {"identifier", "texture_width", "texture_height",
                        "visible_bounds_width"})
    \cup Set("description", {"x", "debug", "cape"}, {PyBool(TRUE)})
    \cup Set("description", {"identifier"}, {PyInt(1)})
    \cup Set("description", {"texture_width", "texture_height",
                             "visible_bounds_offset", "visible_bounds_width",
                             "visible_bounds_height"},
             {PyStr(<<"x">>)})
    \cup Set("description", {"visible_bounds_offset"},
             {Ints(0, 1, 0), PyList(<<PyInt(0)>>)})

BoneEditsAt(at) ==
    Del(at, {"name", "parent", "pivot", "rotation", "mirror", "cubes",
             "locators"})
    \cup Set(at, {"x", "mirror", "debug", "reset", "neverRender"},
             {PyBool(TRUE)})
    \cup Set(at, {"mirror"}, {PyBool(FALSE)})
    \cup Set(at, {"inflate", "render_group_id", "redner_group_id"},
             {PyInt(1)})
    \cup Set(at, {"poly_mesh"}, {PyDict(<<>>)})
    \cup Set(at, {"texture_meshes"}, {PyList(<<>>)})
    \cup Set(at, {"bind_pose_rotation", "pivot"},
             {Ints(0, 0, 0), Floats(500, -1500, 250), PyList(<<PyInt(0)>>)})
    \cup Set(at, {"rotation"},
             {Ints(0, 0, 0), Ints(90, 0, 0), Floats(0, 180000, -90000),
              PyList(<<PyInt(0)>>)})
    \cup Set(at, {"name", "parent", "pivot", "mirror", "inflate", "debug",
                  "cubes", "locators"},
             {PyInt(1)})
    \cup Set(at, {"name"}, {PyStr(<<"r">>), PyStr(<<"a", ".", "b">>)})
    \cup Set(at, {"parent"}, {PyStr(<<"q">>), PyStr(<<"c">>)})
    \cup Set(at, {"cubes"}, {PyList(<<>>), PyList(<<PyInt(1)>>)})
    \cup Set(at, {"locators"}, {PyDict(<<>>), PyList(<<>>)})

BoneEdits == BoneEditsAt("bone_r") \cup BoneEditsAt("bone_c")

CubeEdits ==
    Del("cube", {"origin", "size", "uv", "inflate"})
    \cup Set("cube", {"x", "mirror"}, {PyBool(TRUE)})
    \cup Set("cube", {"mirror"}, {PyBool(FALSE), PyStr(<<"x">>)})
    \cup Set("cube", {"uv"},
             {PyDict(<<>>), PyDict(<< <<"north", PyDict(<<>>)>> >>),
              PyList(<<PyInt(0)>>), PyStr(<<"x">>), PyInt(1),
              PyList(<<PyInt(4), PyInt(2)>>)})
    \cup Set("cube", {"origin", "size", "pivot"},
             {Ints(0, 0, 0), Ints(2, 4, 6), Floats(500, 1500, 2500),
              Floats(-500, 250, 1125), PyStr(<<"x">>)})
    \cup Set("cube", {"rotation"},
             {Ints(90, 0, 0), Ints(0, 0, -90), Ints(90, 180, 270),
              PyStr(<<"x">>)})
    \cup Set("cube", {"inflate"}, {PyFloat(500), PyStr(<<"x">>)})

LocatorsEdits ==
    Set("locators", {<<"l">>, <<"m">>},
        {Ints(0, 0, 0), Floats(500, 1500, -2500), PyDict(<<>>), PyInt(1),
         PyList(<<PyInt(1), PyInt(2)>>), PyList(<<None, None, None>>)})
    \cup Del("locators", {<<"l">>})

Edits ==
    {NoEdit} \cup TopEdits \cup GeometryEdits \cup DescriptionEdits
    \cup BoneEdits \cup CubeEdits \cup LocatorsEdits

\* declared versions: two per parser
DeclaredVersions == {V_1_12_0, V_1_16_0, V_1_8_0, V_1_10_0}

Layouts_1_12 == {<<>>, <<"A">>, <<"A", "B">>, <<"B", "A">>, <<"A", "A2">>,
                 <<"A2", "A">>}
Layouts_1_8 == {<<>>, <<"A">>, <<"A", "B">>, <<"B", "A">>}

\* every change is made with geometry A before and after another geometry;
\* the other layouts come unchanged or changed at the geometry
Inputs ==
    {[version |-> v, layout |-> l, edit |-> e] :
        v \in DeclaredVersions,
        l \in {<<"A", "B">>, <<"B", "A">>},
        e \in Edits}
    \cup
    {[version |-> v, layout |-> l, edit |-> e] :
        v \in DeclaredVersions,
        l \in Layouts_1_12,
        e \in {NoEdit} \cup GeometryEdits}

\* the inputs that make sense: a layout of the parser of the declared
\* version, and a change of the description where there is one
SensibleInputs ==
    {in \in Inputs :
        /\ ParserOf(PyStr(in.version)) = V_1_8_0 =>
              /\ in.layout \in Layouts_1_8
              /\ in.edit.at # "description"
              /\ in.edit.key # S(K_minecraft_geometry)
        /\ ParserOf(PyStr(in.version)) = V_1_12_0 =>
              in.edit.key # S(G_z)}

GeometryNames == {<<>>, G_a, G_b, G_z}

(***************************************************************************)
(* The import of a document                                                *)
(***************************************************************************)
Init ==
    /\ pc = "ModelLoader"
    /\ parsers = KnownParsers
    /\ version = None
    /\ picked = None
    /\ input \in SensibleInputs
    /\ \E name \in GeometryNames :
          call = [data |-> Document(input), geometry_name |-> name]
    /\ loader = None
    /\ raised = None
    /\ imported = None
    /\ objects = <<>>
    /\ exported = None
    /\ selected_objects = <<>>
    /\ mcproperties = None
    /\ frames = <<>>
    /\ pivot = None
    /\ rotations = None
    /\ closest = None
    /\ search = None
    /\ conflict = None
    /\ keyframes = <<>>
    /\ next_keyframe = 0
    /\ prev_rotation = None
    /\ bone_data = None

\* __init__ returns or raises
Returns(made) ==
    IF made.ok
    THEN /\ loader' = made.value
         /\ raised' = None
         /\ pc' = "ImportGeometry"
    ELSE /\ loader' = None
         /\ raised' = made.error
         /\ pc' = "raised"

\* loader = ModelLoader(data, geometry_name)
ModelLoader_init ==
    /\ pc = "ModelLoader"
    /\ Returns(ModelLoader(call.data, call.geometry_name))
    /\ UNCHANGED <<parsers, version, picked, input, call, imported, objects,
                   exported,
                   selected_objects, mcproperties, frames, pivot, rotations, closest,
                   search, conflict, keyframes, next_keyframe, prev_rotation, bone_data>>

\* geometry = ImportGeometry(loader)
ImportGeometry_init ==
    /\ pc = "ImportGeometry"
    /\ imported' = ImportGeometry(loader)
    /\ pc' = "build"
    /\ UNCHANGED <<parsers, version, picked, input, call, loader, raised,
                   objects, exported,
                   selected_objects, mcproperties, frames, pivot, rotations, closest,
                   search, conflict, keyframes, next_keyframe, prev_rotation, bone_data>>

\* geometry.build(context), first phase: Create objects - and set their
\* pivots
build_create ==
    /\ pc = "build"
    /\ LET st == CreateObjects([objects |-> objects, bones |-> imported.bones], 1)
       IN  /\ objects' = st.objects
           /\ imported' = [imported EXCEPT !.bones = st.bones]
    /\ pc' = "build_parent"
    /\ UNCHANGED <<parsers, version, picked, input, call, loader, raised,
                   exported,
                   selected_objects, mcproperties, frames, pivot, rotations, closest,
                   search, conflict, keyframes, next_keyframe, prev_rotation, bone_data>>

\* geometry.build(context), second phase: Parent objects (keep offset)
build_parent ==
    /\ pc = "build_parent"
    /\ objects' =
          ParentObjects([objects |-> objects, bones |-> imported.bones], 1).objects
    /\ pc' = "build_rotate"
    /\ UNCHANGED <<parsers, version, picked, input, call, loader, raised,
                   imported, exported,
                   selected_objects, mcproperties, frames, pivot, rotations, closest,
                   search, conflict, keyframes, next_keyframe, prev_rotation, bone_data>>

\* geometry.build(context), third phase: Rotate objects
build_rotate ==
    /\ pc = "build_rotate"
    /\ objects' =
          RotateObjects([objects |-> objects, bones |-> imported.bones], 1).objects
    /\ pc' = "export_model"
    /\ UNCHANGED <<parsers, version, picked, input, call, loader, raised,
                   imported, exported,
                   selected_objects, mcproperties, frames, pivot, rotations, closest,
                   search, conflict, keyframes, next_keyframe, prev_rotation, bone_data>>

\* context.scene.nusiq_bmodel: the properties of the scene the export reads
SceneProperties ==
    {[model_name |-> <<"m">>, texture_width |-> PyInt(64),
      texture_height |-> PyInt(64)],
     [model_name |-> <<"a">>, texture_width |-> PyInt(32),
      texture_height |-> PyInt(16)]}

\* the sign on a zero of the rotation arithmetic: atan2(+0.0, -1) is 180
\* degrees and atan2(-0.0, -1) is -180 degrees
Halves == {180, 0 - 180}

\* the sequences of distinct elements of a set
RECURSIVE Arrangements(_)
Arrangements(places) ==
    {<<>>} \cup UNION {{<<i>> \o rest : rest \in Arrangements(places \ {i})} :
                         i \in places}

\* context.selected_objects: after an import every object of the scene is
\* selected, in the order of the scene; in a scene that was not imported
\* any objects are, in any order
Selections ==
    IF imported = None THEN Arrangements(1..Len(objects))
    ELSE {InOrder(1..Len(objects), Len(objects))}

\* export_model returns or raises
Exports(made) ==
    IF made.ok
    THEN /\ exported' = made.value
         /\ raised' = None
         /\ pc' = "exported"
    ELSE /\ exported' = None
         /\ raised' = made.error
         /\ pc' = "raised"

\* export_model(context)
export_model_call ==
    /\ pc = "export_model"
    /\ \E selected \in Selections :
          /\ selected_objects' = selected
          /\ \E nusiq_bmodel \in SceneProperties, half \in Halves :
                Exports(export_model(objects, selected, nusiq_bmodel, half))
    /\ UNCHANGED <<parsers, version, picked, input, call, loader, imported,
                   objects, mcproperties, frames, pivot, rotations, closest,
                   search, conflict, keyframes, next_keyframe, prev_rotation, bone_data>>

Next ==
    \/ ModelLoader_init
    \/ ImportGeometry_init
    \/ build_create
    \/ build_parent
    \/ build_rotate
    \/ export_model_call

Spec == Init /\ [][Next]_vars


(***************************************************************************)
(* The export of a scene that was made by hand                             *)
(*                                                                         *)
(* The scene holds three objects.  Blender keeps their names distinct, the *)
(* first two have the same name up to the suffix.  Every object is a mesh  *)
(* or an empty, the first two with or without the custom property          *)
(* mc_is_bone, and the parents form a forest, as Blender keeps them.       *)
(***************************************************************************)
SceneNames ==
    << <<"a", "r", "m">>, <<"a", "r", "m", ".", "0", "0", "1">>,
       <<"l", "e", "g">> >>

Places == DOMAIN SceneNames

\* the parents of a scene: following them ends at an object without parent
RECURSIVE EndsAtRoot(_, _, _)
EndsAtRoot(parents, i, steps) ==
    \/ i = 0
    \/ steps > 0 /\ EndsAtRoot(parents, parents[i], steps - 1)

ParentForests ==
    {parents \in [Places -> {0} \cup Places] :
        \A i \in Places : EndsAtRoot(parents, i, Len(SceneNames))}

\* the i-th object: at a place of its own, the second one turned by a
\* quarter, a mesh being a box of a size of its own
SceneObject(i, type, parent, is_bone) ==
    [name |-> SceneNames[i],
     type |-> type,
     location |-> VScale(<<i, 0, 2 * i>>, One \div MINECRAFT_SCALE_FACTOR),
     rotation |-> IF i = 2 THEN EulerToMatrix(<<0, 0, 90>>) ELSE Identity3,
     parent |-> parent,
     matrix_parent_inverse |-> IdentityMatrix,
     vertices |-> IF type = "MESH"
                  THEN [n \in 1..8 |->
                           VScale(Corners[n],
                                  i * (One \div (2 * MINECRAFT_SCALE_FACTOR)))]
                  ELSE <<>>,
     props |-> IF is_bone THEN {"mc_is_bone"} ELSE {}]

Scenes ==
    {[i \in Places |-> SceneObject(i, types[i], parents[i], is_bone[i])] :
        types \in [Places -> {"MESH", "EMPTY"}],
        parents \in ParentForests,
        is_bone \in {marks \in [Places -> BOOLEAN] : ~marks[Len(SceneNames)]}}

InitExport ==
    /\ pc = "export_model"
    /\ objects \in Scenes
    /\ parsers = KnownParsers
    /\ version = None
    /\ picked = None
    /\ input = None
    /\ call = None
    /\ loader = None
    /\ raised = None
    /\ imported = None
    /\ exported = None
    /\ selected_objects = <<>>
    /\ mcproperties = None
    /\ frames = <<>>
    /\ pivot = None
    /\ rotations = None
    /\ closest = None
    /\ search = None
    /\ conflict = None
    /\ keyframes = <<>>
    /\ next_keyframe = 0
    /\ prev_rotation = None
    /\ bone_data = None

NextExport == export_model_call

SpecExport == InitExport /\ [][NextExport]_vars

(***************************************************************************)
(* get_mcpivot, one call of _get_mcpivot at a time                         *)
(*                                                                         *)
(* The dictionary object_properties is made by hand: the mcparent of a key *)
(* is any key, a key that is missing, or None, so that the links need not  *)
(* form a forest.  The objects of the scene have no parent.                *)
(***************************************************************************)
\* the frames the interpreter grants to _get_mcpivot before RecursionError
RecursionLimit == 5

RecursionError ==
    [exc |-> "RecursionError", what |-> "maximum recursion depth exceeded"]

PivotScene == [i \in Places |-> SceneObject(i, "EMPTY", 0, FALSE)]

\* a key that is in no dictionary
MissingKey == Len(SceneNames) + 1

PivotProperties ==
    {[i \in Places |-> [thisobj_id |-> i, mcparent |-> links[i],
                        mcchildren |-> <<>>, mctype |-> "BONE"]] :
        links \in [Places -> {0, MissingKey} \cup Places]}

InitPivot ==
    /\ pc = "get_mcpivot"
    /\ objects = PivotScene
    /\ \E object_properties \in PivotProperties, i \in Places :
          mcproperties = [objprop |-> object_properties[i],
                          object_properties |-> object_properties]
    /\ frames = <<>>
    /\ pivot = None
    /\ raised = None
    /\ parsers = KnownParsers
    /\ version = None
    /\ picked = None
    /\ input = None
    /\ call = None
    /\ loader = None
    /\ imported = None
    /\ exported = None
    /\ selected_objects = <<>>
    /\ rotations = None
    /\ closest = None
    /\ search = None
    /\ conflict = None
    /\ keyframes = <<>>
    /\ next_keyframe = 0
    /\ prev_rotation = None
    /\ bone_data = None

PivotUnchanged ==
    UNCHANGED <<parsers, version, picked, input, call, loader, imported,
                objects, exported, selected_objects, mcproperties,
                rotations, closest,
                search, conflict, keyframes, next_keyframe, prev_rotation, bone_data>>

\* the frame of a call of _get_mcpivot that has just begun
Frame(objprop) == [objprop |-> objprop, result |-> None]

Running == frames[Len(frames)]

Popped == SubSeq(frames, 1, Len(frames) - 1)

PivotRaises(e) ==
    /\ raised' = e
    /\ frames' = <<>>
    /\ pc' = "raised"
    /\ UNCHANGED pivot

\* get_mcpivot(objprop, object_properties) calls _get_mcpivot(objprop)
get_mcpivot_call ==
    /\ pc = "get_mcpivot"
    /\ frames' = <<Frame(mcproperties.objprop)>>
    /\ pc' = "_get_mcpivot"
    /\ UNCHANGED <<pivot, raised>>
    /\ PivotUnchanged

\* _get_mcpivot when objprop.mcparent is not None: up to the recursive call
_get_mcpivot_parent ==
    /\ pc = "_get_mcpivot"
    /\ Running.objprop.mcparent # 0
    /\ IF Running.objprop.mcparent
              \notin DOMAIN mcproperties.object_properties
       THEN PivotRaises(KeyError(Running.objprop.mcparent))
       ELSE IF Len(frames) >= RecursionLimit
       THEN PivotRaises(RecursionError)
       ELSE /\ frames' =
                  Append([frames EXCEPT ![Len(frames)].result =
                             get_local_matrix(
                                 matrix_world(objects,
                                              Running.objprop.mcparent),
                                 matrix_world(objects,
                                              Running.objprop.thisobj_id)).t],
                         Frame(mcproperties.object_properties[
                                   Running.objprop.mcparent]))
            /\ UNCHANGED <<pc, pivot, raised>>
    /\ PivotUnchanged

\* _get_mcpivot when objprop.mcparent is None
_get_mcpivot_root ==
    /\ pc = "_get_mcpivot"
    /\ Running.objprop.mcparent = 0
    /\ pivot' = matrix_world(objects, Running.objprop.thisobj_id).t
    /\ frames' = Popped
    /\ pc' = "_get_mcpivot_return"
    /\ UNCHANGED raised
    /\ PivotUnchanged

\* the recursive call returns: result += ..., return result
_get_mcpivot_return ==
    /\ pc = "_get_mcpivot_return"
    /\ frames # <<>>
    /\ pivot' = VAdd(Running.result, pivot)
    /\ frames' = Popped
    /\ UNCHANGED <<pc, raised>>
    /\ PivotUnchanged

\* return np.array(_get_mcpivot(objprop).xzy)
get_mcpivot_return ==
    /\ pc = "_get_mcpivot_return"
    /\ frames = <<>>
    /\ pivot' = Xzy(pivot)
    /\ pc' = "pivot_returned"
    /\ UNCHANGED <<frames, raised>>
    /\ PivotUnchanged

NextPivot ==
    \/ get_mcpivot_call
    \/ _get_mcpivot_parent
    \/ _get_mcpivot_root
    \/ _get_mcpivot_return
    \/ get_mcpivot_return

SpecPivot == InitPivot /\ [][NextPivot]_vars

\* every call that can take a step does take it
FairSpecPivot == SpecPivot /\ WF_vars(NextPivot)

(***************************************************************************)
(* pick_closest_rotation on vectors of quarter turns                       *)
(***************************************************************************)
\* the components of `modify`: what get_mcrotation gives
QuarterTurns == {-180, -90, 0, 90, 180}

\* the components of `close_to`: a rotation that was picked before
EarlierTurns == {-450, 0, 360}

\* None is the caller that leaves original_rotation out; one bone is at
\* rest an eighth of a turn about the second axis
RestRotations ==
    {None, <<0, 0, 0>>, <<0, 90, 0>>, <<90, 180, 0>>, <<0, -90, 90>>,
     <<0, 45, 0>>}

InitRotation ==
    /\ pc = "pick_closest_rotation"
    /\ \E modify \in [1..3 -> QuarterTurns], close_to \in [1..3 -> EarlierTurns],
          original_rotation \in RestRotations :
          rotations = [modify |-> modify, close_to |-> close_to,
                       original_rotation |-> original_rotation]
    /\ closest = None
    /\ search = None
    /\ conflict = None
    /\ keyframes = <<>>
    /\ next_keyframe = 0
    /\ prev_rotation = None
    /\ bone_data = None
    /\ objects = <<>>
    /\ mcproperties = None
    /\ frames = <<>>
    /\ pivot = None
    /\ raised = None
    /\ parsers = KnownParsers
    /\ version = None
    /\ picked = None
    /\ input = None
    /\ call = None
    /\ loader = None
    /\ imported = None
    /\ exported = None
    /\ selected_objects = <<>>

\* pick_closest_rotation(modify, close_to, original_rotation)
pick_closest_rotation_call ==
    /\ pc = "pick_closest_rotation"
    /\ closest' = pick_closest_rotation(rotations.modify, rotations.close_to,
                                        rotations.original_rotation)
    /\ pc' = "picked_closest_rotation"
    /\ UNCHANGED <<parsers, version, picked, input, call, loader, raised,
                   imported, objects, exported, selected_objects,
                   mcproperties, frames, pivot, rotations,
                   search, conflict, keyframes, next_keyframe, prev_rotation,
                   bone_data>>

NextRotation == pick_closest_rotation_call

SpecRotation == InitRotation /\ [][NextRotation]_vars

(***************************************************************************)
(* _pick_closet_location, one pass of a while loop at a time               *)
(***************************************************************************)
InitLocation ==
    /\ pc = "_pick_closet_location"
    /\ \E modify \in [1..3 -> QuarterTurns], close_to \in [1..3 -> EarlierTurns] :
          rotations = [modify |-> modify, close_to |-> close_to,
                       original_rotation |-> None]
    /\ closest = None
    /\ search = None
    /\ conflict = None
    /\ keyframes = <<>>
    /\ next_keyframe = 0
    /\ prev_rotation = None
    /\ bone_data = None
    /\ objects = <<>>
    /\ mcproperties = None
    /\ frames = <<>>
    /\ pivot = None
    /\ raised = None
    /\ parsers = KnownParsers
    /\ version = None
    /\ picked = None
    /\ input = None
    /\ call = None
    /\ loader = None
    /\ imported = None
    /\ exported = None
    /\ selected_objects = <<>>

LocationUnchanged ==
    UNCHANGED <<parsers, version, picked, input, call, loader, raised,
                imported, objects, exported, selected_objects,
                mcproperties, frames, pivot, rotations, closest,
                conflict, keyframes, next_keyframe, prev_rotation, bone_data>>

\* a loop that takes the step only when the distance gets smaller
BreaksUnlessCloser(new_distance, distance) == new_distance >= distance

\* if new_distance > distance: break
Breaks(new_distance, distance) == new_distance > distance

\* distance, choice = new_distance, new_choice
Moved(new_choice) ==
    [search EXCEPT !.choice = new_choice,
                   !.distance = Distance(new_choice, rotations.close_to)]

\* choice = modify; distance = ...; the first pass of the for loop begins
_pick_closet_location_call ==
    /\ pc = "_pick_closet_location"
    /\ search' = [choice |-> rotations.modify,
                  distance |-> Distance(rotations.modify, rotations.close_to),
                  i |-> 1]
    /\ pc' = "while_below"
    /\ LocationUnchanged

\* one test of `while choice[i] < close_to[i]` and the pass that follows
while_below ==
    /\ pc = "while_below"
    /\ IF /\ search.choice[search.i] < rotations.close_to[search.i]
          /\ ~Breaks(Distance(VAdd(search.choice, Arr(search.i)),
                              rotations.close_to), search.distance)
       THEN /\ search' = Moved(VAdd(search.choice, Arr(search.i)))
            /\ UNCHANGED pc
       ELSE /\ pc' = "while_above"
            /\ UNCHANGED search
    /\ LocationUnchanged

\* one test of `while choice[i] > close_to[i]` and the pass that follows;
\* after the loop the for loop goes on, or the function returns
while_above ==
    /\ pc = "while_above"
    /\ IF /\ search.choice[search.i] > rotations.close_to[search.i]
          /\ ~Breaks(Distance(VSub(search.choice, Arr(search.i)),
                              rotations.close_to), search.distance)
       THEN /\ search' = Moved(VSub(search.choice, Arr(search.i)))
            /\ UNCHANGED pc
       ELSE IF search.i < 3
       THEN /\ search' = [search EXCEPT !.i = search.i + 1]
            /\ pc' = "while_below"
       ELSE /\ pc' = "picked_location"
            /\ UNCHANGED search
    /\ LocationUnchanged

NextLocation ==
    \/ _pick_closet_location_call
    \/ while_below
    \/ while_above

SpecLocation == InitLocation /\ [][NextLocation]_vars

(***************************************************************************)
(* operator_func/__init__.py: export_animation                             *)
(*                                                                         *)
(* animation.py is not part of the sources.  What get_next_keyframe and    *)
(* get_mctranslations give is an input: `keyframes` holds the keyframes of *)
(* the scene in the order get_next_keyframe yields them, each with its     *)
(* frame and the location, rotation and scale get_mctranslations gives     *)
(* there for every name of default_translation.  The dictionary            *)
(* get_mcanimation_json builds is kept as the arguments it is given.       *)
(* Rotations are whole degrees, locations and scales numbers of 1/One.     *)
(***************************************************************************)
MaxKeyframes == 3

\* the keys of default_translation
AnimatedBones == {"arm", "leg"}

\* context.scene.render.fps
Fps == 24

RawRotations == {<<0, 0, 0>>, <<170, 0, -90>>, <<-170, 720, 90>>}

\* the k-th keyframe of a scene, with the raw rotations of the bones
Keyframe(k, rots) ==
    [frame |-> 5 * k + 1,
     location |-> [b \in AnimatedBones |-> VScale(<<k, 0, 1>>, One \div 2)],
     rotation |-> rots,
     scale |-> [b \in AnimatedBones |-> VScale(<<1, 1, 1>>, One)]]

Timelines ==
    UNION {{[k \in 1..n |-> Keyframe(k, rots[k])] :
               rots \in [1..n -> [AnimatedBones -> RawRotations]]} :
           n \in 0..MaxKeyframes}

InitAnimation ==
    /\ pc = "export_animation"
    /\ keyframes \in Timelines
    /\ next_keyframe = 0
    /\ prev_rotation = None
    /\ bone_data = None
    /\ closest = None
    /\ search = None
    /\ conflict = None
    /\ rotations = None
    /\ objects = <<>>
    /\ mcproperties = None
    /\ frames = <<>>
    /\ pivot = None
    /\ raised = None
    /\ parsers = KnownParsers
    /\ version = None
    /\ picked = None
    /\ input = None
    /\ call = None
    /\ loader = None
    /\ imported = None
    /\ exported = None
    /\ selected_objects = <<>>

AnimationUnchanged ==
    UNCHANGED <<parsers, version, picked, input, call, loader, raised,
                imported, objects, selected_objects, mcproperties, frames,
                pivot, rotations, closest, search, conflict, keyframes>>

\* str(round((context.scene.frame_current - 1) / context.scene.render.fps,
\* 4)), kept as the number of ten-thousandths it shows
TimeOf(frame_current) == RoundTo((frame_current - 1) * 10000, Fps) \div Fps

\* a rotation for every bone that does not look at the one before
PickedFromZero(keyframe, prev) ==
    [d_key \in AnimatedBones |->
        pick_closest_rotation(keyframe.rotation[d_key], Zero, None)]

\* rot = pick_closest_rotation(rot, prev_rotation[d_key]) for every d_key
Picked(keyframe, prev) ==
    [d_key \in AnimatedBones |->
        pick_closest_rotation(keyframe.rotation[d_key], prev[d_key], None)]

\* bone_data[d_key] of the defaultdict
BoneData(d_key) ==
    IF d_key \in DOMAIN bone_data THEN bone_data[d_key]
    ELSE [scale |-> <<>>, rotation |-> <<>>, position |-> <<>>]

\* the lines up to the while loop
export_animation_call ==
    /\ pc = "export_animation"
    /\ bone_data' = <<>>
    /\ prev_rotation' = [d_key \in AnimatedBones |-> Zero]
    /\ next_keyframe' = IF Len(keyframes) > 0 THEN 1 ELSE 0
    /\ pc' = "while_next_keyframe"
    /\ UNCHANGED exported
    /\ AnimationUnchanged

\* one pass of `while next_keyframe is not None`
export_animation_keyframe ==
    /\ pc = "while_next_keyframe"
    /\ next_keyframe # 0
    /\ bone_data' =
          [d_key \in AnimatedBones |->
              [position |->
                   Append(BoneData(d_key).position,
                          [time |-> TimeOf(keyframes[next_keyframe].frame),
                           value |-> get_vect_json(
                               keyframes[next_keyframe].location[d_key])]),
               rotation |->
                   Append(BoneData(d_key).rotation,
                          [time |-> TimeOf(keyframes[next_keyframe].frame),
                           value |-> get_vect_json(VScale(
                               Picked(keyframes[next_keyframe],
                                      prev_rotation)[d_key], One))]),
               scale |->
                   Append(BoneData(d_key).scale,
                          [time |-> TimeOf(keyframes[next_keyframe].frame),
                           value |-> get_vect_json(
                               keyframes[next_keyframe].scale[d_key])])]]
    /\ prev_rotation' = Picked(keyframes[next_keyframe], prev_rotation)
    /\ next_keyframe' =
          IF next_keyframe < Len(keyframes) THEN next_keyframe + 1 ELSE 0
    /\ UNCHANGED <<pc, exported>>
    /\ AnimationUnchanged

\* the lines after the while loop
export_animation_return ==
    /\ pc = "while_next_keyframe"
    /\ next_keyframe = 0
    /\ exported' = [name |-> <<"w", "a", "l", "k">>,
                    length |-> 250,
                    loop_animation |-> TRUE,
                    anim_time_update |-> <<>>,
                    bone_data |-> bone_data]
    /\ pc' = "animation_exported"
    /\ UNCHANGED <<bone_data, prev_rotation, next_keyframe>>
    /\ AnimationUnchanged

NextAnimation ==
    \/ export_animation_call
    \/ export_animation_keyframe
    \/ export_animation_return

SpecAnimation == InitAnimation /\ [][NextAnimation]_vars

(***************************************************************************)
(* common.py: get_name_conflicts, called with the dictionary               *)
(* get_object_mcproperties gives for a selection of a scene                *)
(***************************************************************************)
\* names of the three objects of a scene; Blender keeps the names of the
\* objects of a scene different and takes any name that is not empty
SceneNamings ==
    {SceneNames,
     << <<".", "0", "0", "1">>, <<".", "0", "0", "2">>, <<"l", "e", "g">> >>,
     << <<"l", "e", "g", ".", "L">>, <<"l", "e", "g", ".", "R">>, <<".">> >>}

Renamed(scene, names) ==
    [i \in DOMAIN scene |-> [scene[i] EXCEPT !.name = names[i]]]

InitConflicts ==
    /\ pc = "get_name_conflicts"
    /\ objects \in {Renamed(scene, names) :
                       scene \in Scenes, names \in SceneNamings}
    /\ parsers = KnownParsers
    /\ version = None
    /\ picked = None
    /\ input = None
    /\ call = None
    /\ loader = None
    /\ raised = None
    /\ imported = None
    /\ exported = None
    /\ selected_objects = <<>>
    /\ mcproperties = None
    /\ frames = <<>>
    /\ pivot = None
    /\ rotations = None
    /\ closest = None
    /\ search = None
    /\ conflict = None
    /\ keyframes = <<>>
    /\ next_keyframe = 0
    /\ prev_rotation = None
    /\ bone_data = None

\* get_name_conflicts(get_object_mcproperties(context))
get_name_conflicts_call ==
    /\ pc = "get_name_conflicts"
    /\ \E selected \in Arrangements(1..Len(objects)) :
          /\ selected_objects' = selected
          /\ mcproperties' = get_object_mcproperties(objects, selected)
          /\ conflict' = get_name_conflicts(
                             objects, selected,
                             get_object_mcproperties(objects, selected))
    /\ pc' = "name_conflicts"
    /\ UNCHANGED <<parsers, version, picked, input, call, loader, raised,
                   imported, objects, exported, frames, pivot, rotations,
                   closest, search, keyframes, next_keyframe, prev_rotation,
                   bone_data>>

NextConflicts == get_name_conflicts_call

SpecConflicts == InitConflicts /\ [][NextConflicts]_vars
(***************************************************************************)
(* What the properties below say about a document                          *)
(***************************************************************************)
\* the parser of the version the document was written for
WrittenFor == ParserOf(PyStr(input.version))

\* the identifier a geometry of the layout was given
IdentOf(g) == IF g = "B" THEN G_b ELSE G_a

Matches(g) ==
    call.geometry_name = <<>> \/ IdentOf(g) = call.geometry_name

\* the place in the layout of the first geometry geometry_name asks for,
\* 0 when there is none
FirstMatch ==
    IF \E i \in 1..Len(input.layout) : Matches(input.layout[i])
    THEN CHOOSE i \in 1..Len(input.layout) :
            /\ Matches(input.layout[i])
            /\ \A j \in 1..(i-1) : ~Matches(input.layout[j])
    ELSE 0

\* the changed geometry is the one geometry_name asks for
ChangedIsSelected == FirstMatch > 0 /\ input.layout[FirstMatch] = "A"

\* the JSON path of the i-th geometry of the layout
PathOfGeometry(i) ==
    IF WrittenFor = V_1_12_0
    THEN <<S(K_minecraft_geometry), I(i-1)>>
    ELSE <<S(IdentOf(input.layout[i]))>>

\* the JSON path of the changed object
PathOfChanged ==
    LET a == CHOOSE i \in 1..Len(input.layout) : input.layout[i] = "A"
        geometry == PathOfGeometry(a)
        bone_r == geometry \o <<K("bones"), I(0)>>
        bone_c == geometry \o <<K("bones"), I(1)>>
    IN  CASE input.edit.at = "top" -> <<>>
          [] input.edit.at = "geometry" -> geometry
          [] input.edit.at = "description" -> Append(geometry, K("description"))
          [] input.edit.at = "bone_r" -> bone_r
          [] input.edit.at = "bone_c" -> bone_c
          [] input.edit.at = "cube" -> bone_c \o <<K("cubes"), I(0)>>
          [] input.edit.at = "locators" -> Append(bone_r, K("locators"))

\* the JSON path of the changed element
PathOfElement == Append(PathOfChanged, input.edit.key)

Returned == pc # "ModelLoader"
Failed == pc = "raised"
UnsupportedStructure ==
    Failed /\ raised.exc = "FileIsNotAModelException"
UnsupportedFeature ==
    Failed /\ raised.exc = "ImportingNotImplementedError"

(***************************************************************************)
(* C1                                                                      *)
(***************************************************************************)
\* a str made of integers separated by single dots, read off its characters:
\* every character is a digit, a dot or a sign, the last one is a digit,
\* a dot follows a digit, and a sign starts a piece and precedes a digit
DottedIntegers(v) ==
    /\ v.t = "str"
    /\ Len(v.v) > 0
    /\ IsDigit(v.v[Len(v.v)])
    /\ \A i \in 1..Len(v.v) :
          \/ IsDigit(v.v[i])
          \/ v.v[i] = "." /\ i > 1 /\ IsDigit(v.v[i-1])
          \/ /\ v.v[i] \in {"-", "+"}
             /\ i = 1 \/ v.v[i-1] = "."
             /\ IsDigit(v.v[i+1])

\* a <= b for tuples of integers: a is a prefix of b, or a is smaller at the
\* first place where they differ
LexLeq(a, b) ==
    \/ Len(a) <= Len(b) /\ \A k \in 1..Len(a) : a[k] = b[k]
    \/ \E k \in 1..Len(a) :
          /\ k <= Len(b)
          /\ a[k] < b[k]
          /\ \A j \in 1..(k-1) : a[j] = b[j]

\* the parsers whose version is <= the declared one
Candidates(ps, v) ==
    {i \in 1..Len(ps) : LexLeq(ToTuple(PyStr(ps[i])), ToTuple(v))}

C2_MissingFormatVersion ==
    (Returned /\ ~Has(call.data, K_format_version)) =>
        /\ UnsupportedStructure
        /\ raised = FileIsNotAModel("is missing properties", <<>>)
        /\ loader = None

\* C2 witness: a document without format_version and without the geometry
\* asked for was refused at the root path
C2_Witness ==
    /\ Failed
    /\ ~Has(call.data, K_format_version)
    /\ FirstMatch = 0
    /\ raised.path = <<>>

(***************************************************************************)
(* C3                                                                      *)
(***************************************************************************)
UvIsDictionary ==
    /\ input.edit.at = "cube"
    /\ input.edit.do = "set"
    /\ input.edit.key = K("uv")
    /\ input.edit.value.t = "dict"

\* C3 as stated: for both parsers, a cube of the selected geometry whose
\* 'uv' is a dictionary makes the load raise
\* ImportingNotImplementedError('uv dictionary', path of the uv).
C3_UvDictionaryEveryParser ==
    (Returned /\ UvIsDictionary /\ ChangedIsSelected) =>
        /\ UnsupportedFeature
        /\ raised = NotImplemented("uv dictionary", PathOfElement)

\* C3 amended: a cube of the selected geometry whose 'uv' is a dictionary
\* makes the load raise ImportingNotImplementedError('uv dictionary', path
\* of the uv) under parser 1.12.0, and FileIsNotAModelException at the path
\* of the uv under parser 1.8.0.
C3_UvDictionary ==
    (Returned /\ UvIsDictionary /\ ChangedIsSelected) =>
        IF WrittenFor = V_1_12_0
        THEN /\ UnsupportedFeature
             /\ raised = NotImplemented("uv dictionary", PathOfElement)
        ELSE /\ UnsupportedStructure
             /\ raised.path = PathOfElement

\* C3 witness: a uv dictionary in a 1.12.0 document was refused as an
\* unsupported feature
C3_Witness ==
    /\ Failed
    /\ UvIsDictionary
    /\ ChangedIsSelected
    /\ input.version = V_1_12_0
    /\ raised.what = "uv dictionary"

(***************************************************************************)
(* C4                                                                      *)
(***************************************************************************)
\* the keys an object of a geometry must hold
RequiredKeys(at) ==
    CASE at = "geometry" ->
           IF WrittenFor = V_1_12_0 THEN {K("bones"), K("description")}
           ELSE {K("bones")}
      [] at = "description" -> {K("identifier")}
      [] at \in {"bone_r", "bone_c"} -> {K("name")}
      [] OTHER -> {}

LacksRequiredKey ==
    /\ input.edit.do = "del"
    /\ input.edit.key \in RequiredKeys(input.edit.at)

\* C4: for both parsers, a document whose only defect is that an object of
\* the selected geometry lacks a required key (the geometry's 'bones', for
\* 1.12.0 its 'description', the description's 'identifier', a bone's
\* 'name') makes the load raise FileIsNotAModelException: it neither
\* succeeds nor fails in another way.
C4_MissingRequiredKey ==
    (Returned /\ LacksRequiredKey /\ ChangedIsSelected) =>
        UnsupportedStructure

(***************************************************************************)
(* C5                                                                      *)
(***************************************************************************)
\* the keys the parser accepts in an object
AcceptedKeys(at) ==
    LET new == WrittenFor = V_1_12_0
    IN  CASE at = "top" ->
               IF new THEN {S(K_format_version), S(K_minecraft_geometry),
                            S(K_cape)}
               ELSE {S(K_format_version), S(K_debug), S(G_a), S(G_b), S(G_z)}
          [] at = "geometry" ->
               IF new THEN {K("description"), K("bones")}
               ELSE {K(k) : k \in GeometryKeys_1_8}
          [] at = "description" -> {K(k) : k \in DescriptionKeys_1_12}
          [] at \in {"bone_r", "bone_c"} ->
               IF new THEN {K(k) : k \in BoneKeys_1_12}
               ELSE {K(k) : k \in BoneKeys_1_8}
          [] at = "cube" ->
               IF new THEN {K(k) : k \in CubeKeys_1_12}
               ELSE {K(k) : k \in CubeKeys_1_8}

HoldsUnknownKey ==
    /\ input.edit.do = "set"
    /\ input.edit.at \in {"top", "geometry", "description", "bone_r",
                          "bone_c", "cube"}
    /\ input.edit.key \notin AcceptedKeys(input.edit.at)

\* C5: for both parsers, a document whose only defect is a key outside the
\* accepted set of the object that holds it (top-level object, selected
\* geometry, its description, one of its bones, a cube of a bone) makes the
\* load raise FileIsNotAModelException; no unknown key is ignored.
C5_UnknownKey ==
    (Returned /\ HoldsUnknownKey
        /\ (ChangedIsSelected \/ input.edit.at = "top")) =>
        UnsupportedStructure

\* C5 witness: an unknown key of a cube was refused
C5_Witness ==
    /\ Failed
    /\ HoldsUnknownKey
    /\ ChangedIsSelected
    /\ input.edit.at = "cube"
    /\ raised.exc = "FileIsNotAModelException"

(***************************************************************************)
(* C6                                                                      *)
(***************************************************************************)
\* the unsupported features, each with a value of the type the format
\* gives it, at the object the format of the parser puts it in
UsesUnsupportedFeature ==
    LET e == input.edit
        new == WrittenFor = V_1_12_0
    IN  /\ e.do = "set"
        /\ \/ e.at = "top" /\ new /\ e.key = S(K_cape)
           \/ e.at = "top" /\ ~new /\ e.key = S(K_debug)
           \/ e.at = "geometry" /\ ~new /\ e.key = K("cape")
                 /\ e.value.t = "str"
           \/ e.at = "geometry" /\ ~new /\ e.key = K("debug")
                 /\ e.value.t = "bool"
           \/ e.at \in {"bone_r", "bone_c"} /\ e.key = K("debug")
                 /\ e.value.t = "bool"
           \/ e.at \in {"bone_r", "bone_c"} /\ e.key = K("poly_mesh")
           \/ e.at \in {"bone_r", "bone_c"} /\ e.key = K("texture_meshes")
           \/ e.at \in {"bone_r", "bone_c"} /\ e.key = K("inflate")
                 /\ e.value.t \in Number
           \/ e.at = "locators" /\ e.value.t = "dict"

\* C6: for both parsers, a structurally valid document that uses an
\* unsupported feature (cape, debug, poly_mesh, texture_meshes, inflate of
\* a bone, a dictionary locator) in the selected geometry makes the load
\* raise ImportingNotImplementedError: it neither succeeds nor raises
\* FileIsNotAModelException.
C6_UnsupportedFeature ==
    (Returned /\ UsesUnsupportedFeature
        /\ (ChangedIsSelected \/ input.edit.at = "top")) =>
        UnsupportedFeature

(***************************************************************************)
(* C7                                                                      *)
(***************************************************************************)
Loaded == Returned /\ raised = None

\* the geometry the loader chose, as the document holds it
RawGeometry ==
    LET p == loader.geometry_path
    IN  IF Len(p) = 2 THEN Get(call.data, p[1].s).v[p[2].i + 1]
        ELSE Get(call.data, p[1].s)

RawDescription ==
    IF Len(loader.geometry_path) = 2 THEN Get(RawGeometry, "description")
    ELSE RawGeometry

RawBones == Get(RawGeometry, "bones").v

\* field of the loaded object has the default value when the raw object
\* has no key
Defaulted(raw, key, loaded, field, default) ==
    ~Has(raw, key) => loaded[field] = default

CubeDefaulted(raw_bone, raw, loaded) ==
    /\ \A key \in {"origin", "size", "rotation", "pivot"} :
          Defaulted(raw, key, loaded, key, Ints(0, 0, 0))
    /\ Defaulted(raw, "inflate", loaded, "inflate", PyInt(0))
    /\ Defaulted(raw, "uv", loaded, "uv", PyList(<<PyInt(0), PyInt(0)>>))
    /\ Defaulted(raw, "mirror", loaded, "mirror",
                 IF Has(raw_bone, "mirror") THEN Get(raw_bone, "mirror")
                 ELSE PyBool(FALSE))

BoneDefaulted(raw, loaded) ==
    /\ Defaulted(raw, "parent", loaded, "parent", None)
    /\ Defaulted(raw, "pivot", loaded, "pivot", Ints(0, 0, 0))
    /\ Defaulted(raw, "rotation", loaded, "rotation", Ints(0, 0, 0))
    /\ Defaulted(raw, "mirror", loaded, "mirror", PyBool(FALSE))
    /\ Defaulted(raw, "cubes", loaded, "cubes", <<>>)
    /\ Defaulted(raw, "locators", loaded, "locators", <<>>)
    /\ Has(raw, "cubes") =>
          /\ Len(loaded.cubes) = Len(Get(raw, "cubes").v)
          /\ \A j \in 1..Len(loaded.cubes) :
                CubeDefaulted(raw, Get(raw, "cubes").v[j], loaded.cubes[j])

\* an optional field is left out
LacksOptionalKey ==
    /\ input.edit.do = "del"
    /\ input.edit.at \in {"geometry", "description", "bone_r", "bone_c",
                          "cube"}
    /\ input.edit.key \notin RequiredKeys(input.edit.at)

\* C7: a document in which optional fields are absent loads, and every
\* absent field has its default: texture_width and texture_height 64; bone
\* parent None, pivot and rotation [0,0,0], mirror false, cubes [],
\* locators {}; cube origin, size, rotation, pivot [0,0,0], inflate 0,
\* uv [0,0], and cube mirror the mirror of the owning bone (the bone's value
\* when it gives one, false otherwise) wherever the bone object holds its
\* 'mirror' key.
C7_Defaults ==
    /\ (Returned /\ FirstMatch > 0
          /\ (input.edit = NoEdit \/ LacksOptionalKey)) => Loaded
    /\ Loaded =>
          /\ Defaulted(RawDescription,
                       IF WrittenFor = V_1_12_0 THEN "texture_width"
                       ELSE "texturewidth",
                       loader.description, "texture_width", PyInt(64))
          /\ Defaulted(RawDescription,
                       IF WrittenFor = V_1_12_0 THEN "texture_height"
                       ELSE "textureheight",
                       loader.description, "texture_height", PyInt(64))
          /\ Len(loader.bones) = Len(RawBones)
          /\ \A i \in 1..Len(RawBones) :
                BoneDefaulted(RawBones[i], loader.bones[i])

\* C7 witness: bone c holds 'mirror': true after its 'cubes', and its cube,
\* which gives no mirror, was loaded with mirror true
C7_Witness ==
    /\ Loaded
    /\ ChangedIsSelected
    /\ input.edit = E("bone_c", "set", K("mirror"), PyBool(TRUE))
    /\ ~Has(Get(RawBones[2], "cubes").v[1], "mirror")
    /\ loader.bones[2].cubes[1].mirror = PyBool(TRUE)

(***************************************************************************)
(* C8                                                                      *)
(***************************************************************************)
\* the change leaves the geometries and their identifiers as they were
KeepsGeometries ==
    /\ input.edit.at \notin {"top", "geometry"}
    /\ ~(input.edit.at = "description" /\ input.edit.key = K("identifier"))

\* the name of the first bone a geometry of the layout was given
FirstBoneOf(g) ==
    CASE g = "A" -> <<"r">> [] g = "A2" -> <<"a", "2">> [] g = "B" -> <<"b">>

\* C8: with geometry_name '' the loader takes the first geometry of the
\* collection of the parser; with another geometry_name it takes the first
\* geometry whose identifier (description.identifier for 1.12.0, the
\* top-level key for 1.8.0) equals geometry_name; when no geometry matches,
\* an empty collection included, the load fails with the error raised for
\* a geometry that is not found.
C8_GeometrySelection ==
    (Returned /\ KeepsGeometries) =>
        /\ FirstMatch = 0 =>
              Failed /\ raised = GeometryNotFound(call.geometry_name)
        /\ FirstMatch > 0 =>
              /\ ~(Failed /\ raised.exc = "ValueError")
              /\ input.edit = NoEdit => Loaded
              /\ Loaded =>
                    /\ loader.geometry_path = PathOfGeometry(FirstMatch)
                    /\ loader.description.identifier =
                          PyStr(IdentOf(input.layout[FirstMatch]))
                    /\ input.edit = NoEdit =>
                          loader.bones[1].name =
                             PyStr(FirstBoneOf(input.layout[FirstMatch]))

\* C8 witness: of two geometries called geometry.a the first was taken, and
\* it is not the one the document was changed at
C8_Witness ==
    /\ Loaded
    /\ input.layout = <<"A2", "A">>
    /\ call.geometry_name = G_a
    /\ loader.geometry_path = PathOfGeometry(1)
    /\ loader.bones[1].name = PyStr(<<"a", "2">>)

(***************************************************************************)
(* C9                                                                      *)
(***************************************************************************)
\* p is the beginning of q
IsPrefix(p, q) == Len(p) <= Len(q) /\ SubSeq(q, 1, Len(p)) = p

\* the change put an element into the document that the loader refuses
\* with an exception of its own
MakesElementOffending ==
    /\ input.edit.do = "set"
    /\ ChangedIsSelected \/ input.edit.at = "top"
    /\ Failed
    /\ raised.exc \in {"FileIsNotAModelException",
                       "ImportingNotImplementedError"}

\* C9: an exception the loader raises for an offending element carries the
\* JSON path of that element, the keys and indices that lead to it from the
\* root of the document (a wrongly typed texture_width of a 1.12.0
\* description is reported under [..., 'description', 'texture_width']):
\* the path of the changed element or of the element inside it that is
\* refused; a key the object must not hold and a feature that is not
\* supported may also be reported at the object that holds them.
C9_ErrorsCarryPath ==
    (Returned /\ MakesElementOffending) =>
        \/ IsPrefix(PathOfElement, raised.path)
        \/ /\ raised.path = PathOfChanged
           /\ \/ raised.exc = "ImportingNotImplementedError"
              \/ raised.what \in {"has unexpected properties",
                                  "is invalid geometry name"}

(***************************************************************************)
(* C10                                                                     *)
(***************************************************************************)
Exported == pc = "exported"

\* the bones of the exported document
ExportedBones ==
    Get(Get(exported, K_minecraft_geometry).v[1], "bones").v

\* a vector of a document rounded to 3 decimal digits, default where the
\* document leaves the key out
Rounded(obj, key) ==
    IF Has(obj, key)
    THEN [n \in 1..Len(Get(obj, key).v) |->
             RoundTo(NumberOf(Get(obj, key).v[n]), One \div 1000)]
    ELSE Zero

CubesOf(bone) == IF Has(bone, "cubes") THEN Get(bone, "cubes").v ELSE <<>>

NamesOf(bones) == {Get(bones[n], "name").v : n \in 1..Len(bones)}

\* the names of the bones are pairwise distinct and hold no dot, and no
\* cube has a negative size
PlainDocument ==
    /\ \A a, b \in 1..Len(RawBones) :
          Get(RawBones[a], "name") = Get(RawBones[b], "name") => a = b
    /\ \A name \in NamesOf(RawBones) : \A n \in 1..Len(name) : name[n] # "."
    /\ \A b \in 1..Len(RawBones) : \A c \in 1..Len(CubesOf(RawBones[b])) :
          \A n \in 1..3 : Rounded(CubesOf(RawBones[b])[c], "size")[n] >= 0

\* the cubes of a bone of the document and of its exported record agree on
\* the keys
SameCubes(raw, out, keys) ==
    /\ Len(CubesOf(raw)) = Len(CubesOf(out))
    /\ \A c \in 1..Len(CubesOf(raw)) : \A key \in keys :
          Rounded(CubesOf(raw)[c], key) = Rounded(CubesOf(out)[c], key)

\* the exported document has the bones of the document by name, with the
\* same pivot, and their cubes agree on the keys
RoundTrip(keys) ==
    /\ NamesOf(ExportedBones) = NamesOf(RawBones)
    /\ \A b \in 1..Len(RawBones) : \A e \in 1..Len(ExportedBones) :
          Get(RawBones[b], "name") = Get(ExportedBones[e], "name") =>
              /\ Rounded(RawBones[b], "pivot") = Rounded(ExportedBones[e], "pivot")
              /\ SameCubes(RawBones[b], ExportedBones[e], keys)

\* C10: the export of the scene built from a loaded document has the same
\* set of bone names as the document, every bone has the pivot it has in the
\* document and every cube the origin and the size it has in the document,
\* up to rounding to 3 decimal digits, a size with a fractional component
\* included.
C10_RoundTrip ==
    (Exported /\ PlainDocument) => RoundTrip({"origin", "size"})


(***************************************************************************)
(* C11                                                                     *)
(***************************************************************************)
\* a list of numbers rounded to 3 decimal digits
RoundedList(list) ==
    [n \in 1..Len(list.v) |-> RoundTo(NumberOf(list.v[n]), One \div 1000)]

\* the bone of the loader and the exported bone record are the same bone
SameBone(b, e) == loader.bones[b].name = Get(ExportedBones[e], "name")

\* the exported cube record has the values of the keys the loaded cube has
SameVectors(loaded, out, keys) ==
    \A key \in keys : RoundedList(loaded[key]) = RoundedList(Get(out, key))

SameMirror(loaded, out) ==
    loaded.mirror.v = (Has(out, "mirror") /\ Get(out, "mirror").v)

SameInflate(loaded, out) ==
    RoundTo(NumberOf(loaded.inflate), One \div 1000)
        = IF Has(out, "inflate")
          THEN RoundTo(NumberOf(Get(out, "inflate")), One \div 1000) ELSE 0

\* every cube the loader accepted is exported with the values of the keys
CubesRoundTrip(keys, mirror, inflate) ==
    \A b \in 1..Len(loader.bones) : \A e \in 1..Len(ExportedBones) :
        SameBone(b, e) =>
            /\ Len(loader.bones[b].cubes) = Len(CubesOf(ExportedBones[e]))
            /\ \A c \in 1..Len(loader.bones[b].cubes) :
                  LET loaded == loader.bones[b].cubes[c]
                      out == CubesOf(ExportedBones[e])[c]
                  IN  /\ SameVectors(loaded, out, keys)
                      /\ mirror => SameMirror(loaded, out)
                      /\ inflate => SameInflate(loaded, out)

\* C11: the export of the scene built from a loaded document gives, for
\* every cube the loader accepted, a cube record with the origin, size,
\* pivot, rotation and uv of the loaded cube up to rounding to 3 decimal
\* digits, with its mirror and with its inflate, a uv other than [0, 0] and
\* an inflate other than 0 included.
C11_CubeRoundTrip ==
    (Exported /\ PlainDocument) =>
        CubesRoundTrip({"origin", "size", "pivot", "rotation", "uv"},
                       TRUE, TRUE)

(***************************************************************************)
(* C12                                                                     *)
(***************************************************************************)
\* build has returned
Built == pc \in {"export_model", "exported"}

\* the object n parent links above i, 0 when the links end before
RECURSIVE Up(_, _)
Up(i, n) == IF n = 0 \/ i = 0 THEN i ELSE Up(objects[i].parent, n - 1)

ReachesRoot(i) == Up(i, Len(objects)) = 0

NeverReturns(i) == \A n \in 1..Len(objects) : Up(i, n) # i

\* the document gives the bone at `at` the parent `name`
DeclaresParent(at, name) ==
    /\ input.edit.at = at
    /\ input.edit.do = "set"
    /\ input.edit.key = K("parent")
    /\ input.edit.value = PyStr(name)

Imported == Loaded /\ pc # "ImportGeometry"

\* the objects of the scene that stand for a bone
BoneObjects == {i \in 1..Len(objects) : "mc_is_bone" \in objects[i].props}

\* C13: the bones of a loaded document have pairwise distinct names, the
\* ImportGeometry made from it holds one ImportBone for every bone of the
\* document, and build makes one bone object for every bone of the document.
C13_DistinctBoneNames ==
    /\ Loaded =>
          \A a, b \in 1..Len(loader.bones) :
              loader.bones[a].name = loader.bones[b].name => a = b
    /\ Imported => Len(imported.bones) = Len(loader.bones)
    /\ Built => Cardinality(BoneObjects) = Len(loader.bones)

(***************************************************************************)
(* C14                                                                     *)
(***************************************************************************)
\* the properties of the objects when the whole scene is selected
Properties ==
    get_object_mcproperties(objects, InOrder(1..Len(objects), Len(objects)))

\* get_mcpivot of the i-th object
PivotOf(i) == get_mcpivot(objects, Properties[i], Properties)

\* the i-th object and the objects its mcparent links lead to, the root
\* last
RECURSIVE Chain(_)
Chain(i) ==
    IF Properties[i].mcparent = 0 THEN <<i>>
    ELSE <<i>> \o Chain(Properties[i].mcparent)

\* the translation of the child in the space of the parent
LocalTranslation(parent, child) ==
    get_local_matrix(matrix_world(objects, parent),
                     matrix_world(objects, child)).t

\* the sum over the chain, from the root down: the world translation of the
\* root, then the local translation of every other object of the chain
RECURSIVE SumDown(_, _)
SumDown(chain, k) ==
    IF k = Len(chain) THEN matrix_world(objects, chain[k]).t
    ELSE VAdd(SumDown(chain, k + 1), LocalTranslation(chain[k + 1], chain[k]))

\* C14: for every object of a built scene get_mcpivot is the world
\* translation of the object when it has no mcparent and the translation of
\* the object in the space of its mcparent plus get_mcpivot of the mcparent
\* otherwise, and it is the world translation of the root of its chain of
\* mcparents plus the local translations along the chain, in the order
\* (x, z, y).
C14_PivotAdditive ==
    Built =>
        \A i \in 1..Len(objects) :
            /\ PivotOf(i) =
                  IF Properties[i].mcparent = 0
                  THEN Xzy(matrix_world(objects, i).t)
                  ELSE VAdd(Xzy(LocalTranslation(Properties[i].mcparent, i)),
                            PivotOf(Properties[i].mcparent))
            /\ PivotOf(i) = Xzy(SumDown(Chain(i), 1))

\* an exported scene with a chain of three objects whose pivot at the end
\* of the chain is not its world translation
C14_Witness ==
    /\ Exported
    /\ \E i \in 1..Len(objects) :
          /\ Len(Chain(i)) = 3
          /\ PivotOf(i) # Xzy(matrix_world(objects, i).t)

(***************************************************************************)
(* C17                                                                     *)
(***************************************************************************)
\* export_model was called with the selection, and it returned or raised
ExportCalled == pc \in {"exported", "raised"} /\ loader = None

\* the properties of the objects of the selection
Selected == get_object_mcproperties(objects, selected_objects)

\* two objects of the selection that make a bone have the same name
BoneNamesRepeat ==
    \E a, b \in DOMAIN Selected :
        /\ a # b
        /\ Selected[a].mctype \in {"BONE", "BOTH"}
        /\ Selected[b].mctype \in {"BONE", "BOTH"}
        /\ ObjectName(objects, Selected[a]) = ObjectName(objects, Selected[b])

\* C17: when two objects of the selection of mctype BONE or BOTH have the
\* same exported name, export_model raises the name conflict and returns no
\* document.
C17_NameConflict ==
    (ExportCalled /\ BoneNamesRepeat) =>
        /\ pc = "raised"
        /\ raised.exc = "NameConflict"

(***************************************************************************)
(* C18                                                                     *)
(***************************************************************************)
\* export_model returned the document of a selection
ExportReturned == pc = "exported" /\ loader = None

\* the objects of the selection that are to make a bone record, in the
\* order of the selection
ExpectedBones ==
    SelectSeq(selected_objects,
              LAMBDA i : Selected[i].mctype \in {"BONE", "BOTH"})

\* the objects that are to make the cubes of the bone record of object i:
\* the object itself when it is BOTH, then the selected objects of mctype
\* CUBE whose mcparent it is
ExpectedCubes(i) ==
    (IF Selected[i].mctype = "BOTH" THEN <<i>> ELSE <<>>)
    \o SelectSeq(selected_objects,
                 LAMBDA c : /\ Selected[c].mctype = "CUBE"
                            /\ Selected[c].mcparent = i)

\* the size of the box of the i-th object as a cube record has it
SizeOf(i) ==
    RoundedList(get_vect_json(VScale(get_mcube_size(objects[i]),
                                     MINECRAFT_SCALE_FACTOR)))

IsMarked(i) == "mc_is_bone" \in objects[i].props

\* a mesh is BOTH when get_parent_mc_bone finds no parent bone for it or it
\* is marked as a bone, and CUBE otherwise
MeshRole(i) ==
    Selected[i].mctype =
        IF get_parent_mc_bone(objects, i) = 0 \/ IsMarked(i)
        THEN "BOTH" ELSE "CUBE"

\* an empty is LOCATOR when it is of the kind and not marked as a bone, and
\* BONE otherwise
EmptyRole(i, locator_kind) ==
    Selected[i].mctype =
        IF locator_kind /\ ~IsMarked(i) THEN "LOCATOR" ELSE "BONE"

Childless(i) == \A c \in 1..Len(objects) : objects[c].parent # i

\* every selected object has one of the four roles, a mesh the role of a
\* mesh and an empty the role of an empty, the locator being the empty that
\* meets with_parent (has a parent, or has none) and has no children
Classified(with_parent) ==
    \A i \in DOMAIN Selected :
        /\ Selected[i].mctype \in {"CUBE", "BONE", "BOTH", "LOCATOR"}
        /\ objects[i].type = "MESH" => MeshRole(i)
        /\ objects[i].type = "EMPTY" =>
              EmptyRole(i, /\ (objects[i].parent # 0) = with_parent
                           /\ Childless(i))

\* C19 as it is stated: every selected object has one of the four roles; a
\* mesh is BOTH exactly when it has no parent bone or is marked as a bone,
\* and CUBE otherwise; an empty is LOCATOR exactly when it has no parent and
\* no children and is not marked as a bone, and BONE otherwise.
C19_RolesLooseLocator == ExportCalled => Classified(FALSE)

\* C19, amended: every selected object has one of the four roles; a mesh is
\* BOTH exactly when it has no parent bone or is marked as a bone, and CUBE
\* otherwise; an empty is LOCATOR exactly when it has a parent and no
\* children and is not marked as a bone, and BONE otherwise.
C19_Roles == ExportCalled => Classified(TRUE)

\* a selection with a locator under a parent and with an empty without
\* parent and without children, which is a bone
C19_Witness ==
    /\ ExportCalled
    /\ \E i, j \in DOMAIN Selected :
          /\ objects[i].type = "EMPTY" /\ objects[i].parent # 0
          /\ Selected[i].mctype = "LOCATOR"
          /\ objects[j].type = "EMPTY" /\ objects[j].parent = 0
          /\ Childless(j) /\ ~IsMarked(j)
          /\ Selected[j].mctype = "BONE"
    /\ \E k \in DOMAIN Selected : Selected[k].mctype = "BOTH"

(***************************************************************************)
(* C15                                                                     *)
(***************************************************************************)
PivotKeys == DOMAIN mcproperties.object_properties

\* following the mcparent links from a key ends at None
RECURSIVE EndsAtNone(_, _)
EndsAtNone(i, steps) ==
    \/ i = 0
    \/ /\ steps > 0
       /\ i \in PivotKeys
       /\ EndsAtNone(mcproperties.object_properties[i].mcparent, steps - 1)

\* following the mcparent links from a key comes back to a key it has left
RECURSIVE RunsIntoCycle(_, _)
RunsIntoCycle(i, steps) ==
    /\ i \in PivotKeys
    /\ \/ steps = 0
       \/ RunsIntoCycle(mcproperties.object_properties[i].mcparent, steps - 1)

LinksAreForest ==
    \A i \in PivotKeys : EndsAtNone(i, Cardinality(PivotKeys))

CycleAbove ==
    RunsIntoCycle(mcproperties.objprop.thisobj_id, Cardinality(PivotKeys))

NoKeyTwice ==
    \A m, n \in DOMAIN frames :
        frames[m].objprop.thisobj_id = frames[n].objprop.thisobj_id => m = n

\* C15: when the mcparent links form a forest, get_mcpivot(objprop,
\* object_properties) never has more calls of _get_mcpivot running than
\* there are keys and raises nothing; when the links above objprop run into
\* a cycle, no key is entered a second time and the call ends with the
\* exception CycleDetected.
C15_TerminatesOrDetectsCycle ==
    (pc \in {"_get_mcpivot", "_get_mcpivot_return", "pivot_returned", "raised"})
    => /\ LinksAreForest =>
             /\ Len(frames) <= Cardinality(PivotKeys)
             /\ raised = None
       /\ CycleAbove =>
             /\ NoKeyTwice
             /\ pc # "pivot_returned"
             /\ pc = "raised" => raised.exc = "CycleDetected"

(***************************************************************************)
(* C16                                                                     *)
(***************************************************************************)
\* the rotation matrix of a Minecraft rotation vector in degrees, as
\* _mc_rotate decodes it
Orientation(mcrotation) ==
    EulerToMatrix(Times(Xzy(mcrotation), <<1, 1, -1>>))

PickedRotation == pc = "picked_closest_rotation"

\* the rotations are of quarter turns, those the matrices are exact for
OfQuarterTurns(mcrotation) == \A a \in 1..3 : mcrotation[a] % 90 = 0

\* original_rotation, the zero vector where the caller leaves it out
Rest ==
    IF rotations.original_rotation = None THEN <<0, 0, 0>>
    ELSE rotations.original_rotation

\* the vector that was returned is not the first choice
OtherWasPicked ==
    closest # _pick_closet_location(rotations.modify,
                                    rotations.close_to).choice

NoMinus180(record) ==
    \A n \in 1..Len(Get(record, "rotation").v) :
        Get(record, "rotation").v[n].v # (0 - 180) * One

\* C20: in the exported document no component of the rotation of a bone
\* record and no component of the rotation of one of its cubes is -180.
C20_NoMinus180 ==
    Exported =>
        \A e \in 1..Len(ExportedBones) :
            /\ NoMinus180(ExportedBones[e])
            /\ \A c \in 1..Len(CubesOf(ExportedBones[e])) :
                  NoMinus180(CubesOf(ExportedBones[e])[c])

(***************************************************************************)
(* C21                                                                     *)
(***************************************************************************)
\* the rotations of the i-th object a bone record can hold: relative to the
\* object up when there is one, absolute when there is none
RotationsUnder(i, up) ==
    {get_vect_json(get_mcrotation(matrix_world(objects, i),
                                  IF up # 0 THEN matrix_world(objects, up)
                                  ELSE None, half)) : half \in Halves}

\* the bone record of an object names the parent bone up and turns about
\* it, or has no parent and turns absolutely when up is None
RecordUnder(record, i, up) ==
    /\ Has(record, "parent") <=> up # 0
    /\ up # 0 => Get(record, "parent").v = ObjectName(objects, Selected[up])
    /\ Get(record, "rotation") \in RotationsUnder(i, up)

\* C21: for every selected object of mctype BONE or BOTH the recorded
\* mcparent is the parent bone get_parent_mc_bone finds in the scene; in
\* the document export_model returns its bone record names that parent
\* and has the rotation relative to it, and the record of an object without
\* parent bone, and only that, has no 'parent' and the absolute rotation.
C21_ParentBoneRecorded ==
    ExportCalled =>
        \A n \in 1..Len(ExpectedBones) :
            /\ Selected[ExpectedBones[n]].mcparent
                  = get_parent_mc_bone(objects, ExpectedBones[n])
            /\ ExportReturned =>
                  RecordUnder(ExportedBones[n], ExpectedBones[n],
                              get_parent_mc_bone(objects, ExpectedBones[n]))

(***************************************************************************)
(* C22                                                                     *)
(***************************************************************************)
\* align(v, previous): the choice of _pick_closet_location
Align(v, previous) == _pick_closet_location(v, previous).choice

\* flip(v, rest) with the second component -(v.y) + 180 + 2*rest.y
FlipAdding(v, rest) ==
    <<v[1] + 180, (0 - v[2]) + 180 + 2 * rest[2], v[3] + 180>>

\* flip(v, rest) with the second component -(v.y + 180 + 2*rest.y)
FlipNegating(v, rest) ==
    <<v[1] + 180, 0 - (v[2] + 180 + 2 * rest[2]), v[3] + 180>>

\* C22 as it is stated: whatever modify (raw), close_to (previous) and
\* original_rotation (rest) are, the vector pick_closest_rotation returns
\* when it does not return the first choice is align(flip(raw, rest),
\* previous) with flip(v, rest) = (v.x+180, -(v.y)+180+2*rest.y, v.z+180).
C22_OtherIsFlipAdding ==
    (PickedRotation /\ OtherWasPicked)
    => closest = Align(FlipAdding(rotations.modify, Rest), rotations.close_to)

\* C22, amended: whatever modify (raw), close_to (previous) and
\* original_rotation (rest) are, the vector pick_closest_rotation returns
\* when it does not return the first choice is align(flip(raw, rest),
\* previous) with flip(v, rest) = (v.x+180, -(v.y+180+2*rest.y), v.z+180).
C22_OtherIsFlipNegating ==
    (PickedRotation /\ OtherWasPicked)
    => closest = Align(FlipNegating(rotations.modify, Rest),
                       rotations.close_to)

\* the other choice was returned for a bone that is at rest an eighth of a
\* turn about the second axis
C22_Witness ==
    /\ PickedRotation
    /\ OtherWasPicked
    /\ Rest[2] % 90 # 0
    /\ closest = Align(FlipNegating(rotations.modify, Rest),
                       rotations.close_to)
    /\ closest # Align(FlipAdding(rotations.modify, Rest),
                       rotations.close_to)

(***************************************************************************)
(* C23                                                                     *)
(***************************************************************************)
\* candidate A: the vector itself, aligned
ChoiceA == Align(rotations.modify, rotations.close_to)

\* candidate B: the flipped vector, aligned
ChoiceB == Align(FlipNegating(rotations.modify, Rest), rotations.close_to)

\* C23: pick_closest_rotation returns candidate B when the distance of B
\* to close_to (previous) is strictly smaller than that of A, and candidate
\* A when the two distances are equal or that of A is smaller.
C23_OtherOnlyWhenCloser ==
    PickedRotation =>
        closest = IF Distance(ChoiceB, rotations.close_to)
                         < Distance(ChoiceA, rotations.close_to)
                  THEN ChoiceB ELSE ChoiceA

\* the two candidates differ and are at the same distance, and A was
\* returned
C23_Witness ==
    /\ PickedRotation
    /\ ChoiceA # ChoiceB
    /\ Distance(ChoiceB, rotations.close_to)
           = Distance(ChoiceA, rotations.close_to)
    /\ closest = ChoiceA

(***************************************************************************)
(* C24                                                                     *)
(***************************************************************************)
\* a pass of a while loop changes the choice
Steps == pc \in {"while_below", "while_above"} /\ search'.choice # search.choice

\* the step of a pass: 360 up or down on the axis of the for loop
StepOnAxis ==
    \/ search'.choice = VAdd(search.choice, Arr(search.i))
    \/ search'.choice = VSub(search.choice, Arr(search.i))

\* a while loop is left
Leaves ==
    \/ pc = "while_below" /\ pc' = "while_above"
    \/ pc = "while_above" /\ pc' # "while_above"

\* the next step of the loop that is left, towards close_to
NextChoice ==
    IF pc = "while_below" THEN VAdd(search.choice, Arr(search.i))
    ELSE VSub(search.choice, Arr(search.i))

\* the loop that is left has reached or passed close_to on its axis
Passed ==
    IF pc = "while_below"
    THEN search.choice[search.i] >= rotations.close_to[search.i]
    ELSE search.choice[search.i] <= rotations.close_to[search.i]

\* C24 as it is stated: _pick_closet_location takes a step of 360 on an
\* axis only when the step makes the distance to close_to strictly
\* smaller, and leaves the loop at the first step that does not.
C24_StepsOnlyWhenCloser ==
    [][/\ Steps => /\ StepOnAxis
                   /\ search'.distance < search.distance
       /\ Leaves => \/ Passed
                    \/ Distance(NextChoice, rotations.close_to)
                           >= search.distance]_vars

\* C24, amended: _pick_closet_location takes a step of 360 on an axis only
\* when the step does not make the distance to close_to greater, a step
\* that leaves the distance unchanged being taken, and leaves the loop when
\* close_to is reached or passed on the axis or at the first step that
\* makes the distance strictly greater; what it returns is the choice of
\* the recursive definition.
C24_StepsUnlessFarther ==
    [][/\ Steps => /\ StepOnAxis
                   /\ search'.distance <= search.distance
                   /\ search'.distance
                          = Distance(search'.choice, rotations.close_to)
       /\ Leaves => \/ Passed
                    \/ Distance(NextChoice, rotations.close_to)
                           > search.distance
       /\ pc' = "picked_location" =>
              search' = _pick_closet_location(rotations.modify,
                                              rotations.close_to)
                            @@ [i |-> 3]]_vars

\* the function returned a choice other than modify at the distance of
\* modify: every step it took left the distance unchanged
C24_Witness ==
    /\ pc = "picked_location"
    /\ search.choice # rotations.modify
    /\ search.distance = Distance(rotations.modify, rotations.close_to)

(***************************************************************************)
(* C25                                                                     *)
(***************************************************************************)
Bones == imported.bones

\* the objects of the bones, the cubes and the locators of self.bones
NodesOf(bone) ==
    {bone.blend_empty}
    \cup {bone.cubes[c].blend_cube : c \in 1..Len(bone.cubes)}
    \cup {bone.locators[l].blend_empty : l \in 1..Len(bone.locators)}

\* the bones, the cubes and the locators of self.bones with their objects
Nodes ==
    UNION {{<<b, "bone", 0, Bones[b].blend_empty>>}
           \cup {<<b, "cube", c, Bones[b].cubes[c].blend_cube>> :
                    c \in 1..Len(Bones[b].cubes)}
           \cup {<<b, "locator", l, Bones[b].locators[l].blend_empty>> :
                    l \in 1..Len(Bones[b].locators)} : b \in 1..Len(Bones)}

\* every bone, cube and locator has an object of its own in the scene, and
\* the scene holds nothing else
AllCreated ==
    /\ \A node \in Nodes : node[4] \in 1..Len(objects)
    /\ \A node, other \in Nodes : node[4] = other[4] => node = other
    /\ Cardinality(Nodes) = Len(objects)

NoParentSet == \A i \in 1..Len(objects) : objects[i].parent = 0

NoRotationApplied == \A i \in 1..Len(objects) : objects[i].rotation = Identity3

\* the object of the bone the b-th bone names as its parent, 0 for None
DeclaredParent(b) ==
    IF Bones[b].parent = None \/ BoneCalled(Bones, Bones[b].parent.v) = 0
    THEN 0
    ELSE Bones[BoneCalled(Bones, Bones[b].parent.v)].blend_empty

\* every cube and locator is under its bone, and every bone under the bone
\* it names, but for the link that would close a loop
AllParentsSet ==
    \A b \in 1..Len(Bones) :
        /\ \A i \in NodesOf(Bones[b]) \ {Bones[b].blend_empty} :
              objects[i].parent = Bones[b].blend_empty
        /\ \/ objects[Bones[b].blend_empty].parent = DeclaredParent(b)
           \/ /\ objects[Bones[b].blend_empty].parent = 0
              /\ \E n \in 0..Len(objects) :
                    Up(DeclaredParent(b), n) = Bones[b].blend_empty

\* C25: when the first phase of build is over every bone, cube and locator
\* of the document has its object, and no parent is set and no rotation
\* applied; when the second phase is over every parent is set and still no
\* rotation is applied; the third phase, which applies the rotations,
\* leaves the parents as they are.
C25_PhasesInOrder ==
    /\ pc = "build_parent" =>
          AllCreated /\ NoParentSet /\ NoRotationApplied
    /\ pc = "build_rotate" =>
          AllCreated /\ AllParentsSet /\ NoRotationApplied
    /\ (Built /\ raised = None) => AllCreated /\ AllParentsSet

\* the second phase is over for a document with a bone under another bone,
\* a cube and a locator, and a bone or a cube is yet to be turned
C25_Witness ==
    /\ pc = "build_rotate"
    /\ \E b \in 1..Len(Bones) : DeclaredParent(b) # 0
    /\ \E b \in 1..Len(Bones) : Len(Bones[b].cubes) > 0
    /\ \E b \in 1..Len(Bones) : Len(Bones[b].locators) > 0
    /\ \E b \in 1..Len(Bones) :
          \/ Bones[b].rotation # Zero
          \/ \E c \in 1..Len(Bones[b].cubes) : Bones[b].cubes[c].rotation # Zero

(***************************************************************************)
(* C26                                                                     *)
(***************************************************************************)
\* the place of the bone that the b-th bone names as its parent, 0 for None
ParentBone(b) ==
    IF Bones[b].parent = None THEN 0
    ELSE BoneCalled(Bones, Bones[b].parent.v)

Visited ==
    IF pc = "export_animation" THEN 0
    ELSE IF next_keyframe = 0 THEN Len(keyframes)
    ELSE next_keyframe - 1

\* the rotation picked for a bone at the k-th keyframe: the raw rotation
\* of the keyframe against the rotation picked at the keyframe before, and
\* against (0, 0, 0) at the first one
RECURSIVE Chained(_, _)
Chained(d_key, k) ==
    IF k = 0 THEN Zero
    ELSE pick_closest_rotation(keyframes[k].rotation[d_key],
                               Chained(d_key, k - 1), None)

\* the samples of one kind of a bone: one for every visited keyframe, in
\* the order of the visits
OnePerVisit(samples) ==
    /\ Len(samples) = Visited
    /\ \A k \in 1..Visited : samples[k].time = TimeOf(keyframes[k].frame)

\* C27: for every bone the rotation sample of the k-th visited keyframe is
\* pick_closest_rotation of the raw rotation at that keyframe and the
\* rotation picked for the bone at the keyframe before, (0, 0, 0) before
\* the first; every visited keyframe has appended one position, one
\* rotation and one scale sample for every bone, in the order of the visits.
C27_RotationsChained ==
    (pc \in {"while_next_keyframe", "animation_exported"}) =>
        /\ Visited > 0 => DOMAIN bone_data = AnimatedBones
        /\ \A d_key \in DOMAIN bone_data :
              /\ OnePerVisit(bone_data[d_key].position)
              /\ OnePerVisit(bone_data[d_key].rotation)
              /\ OnePerVisit(bone_data[d_key].scale)
              /\ \A k \in 1..Visited :
                    /\ bone_data[d_key].rotation[k].value
                          = get_vect_json(VScale(Chained(d_key, k), One))
                    /\ bone_data[d_key].position[k].value
                          = get_vect_json(keyframes[k].location[d_key])
                    /\ bone_data[d_key].scale[k].value
                          = get_vect_json(keyframes[k].scale[d_key])
        /\ pc = "animation_exported" => exported.bone_data = bone_data

\* an animation of three keyframes was exported, and the rotation of a
\* bone at the last one is not what it would be against (0, 0, 0)
C27_Witness ==
    /\ pc = "animation_exported"
    /\ Visited = 3
    /\ \E d_key \in AnimatedBones :
          Chained(d_key, 3)
              # pick_closest_rotation(keyframes[3].rotation[d_key], Zero, None)

(***************************************************************************)
(* C28                                                                     *)
(***************************************************************************)
\* the numbers of a vector get_vect_json has written, in degrees
SampleDegrees(sample) == [i \in 1..3 |-> sample.value.v[i].v \div One]

\* every axis of v is that of raw moved by whole turns and lies in the
\* window [previous - 180, previous + 180)
InWindow(v, raw, previous) ==
    \A i \in 1..3 :
        /\ (v[i] - raw[i]) % 360 = 0
        /\ -180 <= v[i] - previous[i]
        /\ v[i] - previous[i] < 180

WholeTurns == {<<360 * a, 360 * b, 360 * c>> : a, b, c \in -2..2}

\* no vector that is v moved by whole turns is nearer to previous
Nearest(v, previous) ==
    \A turns \in WholeTurns :
        Distance(v, previous) <= Distance(VAdd(v, turns), previous)

\* the two vectors export_animation has aligned at the k-th keyframe
RawAt(d_key, k) ==
    {keyframes[k].rotation[d_key], Other(keyframes[k].rotation[d_key], Zero)}

\* C28: whatever raw rotation the animation export aligns with the
\* rotation before it, every axis of the aligned vector is the raw one
\* moved by whole turns and is at least 180 below and less than 180 above
\* the axis of the rotation before; so no vector of whole turns from it is
\* nearer, and two rotation samples of a bone that follow one another
\* differ by at most 180 degrees on every axis.
C28_AlignWindow ==
    (pc \in {"while_next_keyframe", "animation_exported"}) =>
        \A d_key \in DOMAIN bone_data :
            /\ \A k \in 1..Visited : \A raw \in RawAt(d_key, k) :
                  /\ InWindow(Align(raw, Chained(d_key, k - 1)), raw,
                              Chained(d_key, k - 1))
                  /\ Nearest(Align(raw, Chained(d_key, k - 1)),
                             Chained(d_key, k - 1))
            /\ \A k \in 1..(Len(bone_data[d_key].rotation) - 1) :
                  \A i \in 1..3 :
                      Abs(SampleDegrees(bone_data[d_key].rotation[k + 1])[i]
                          - SampleDegrees(bone_data[d_key].rotation[k])[i]) <= 180

\* an animation was exported where a raw rotation was half a turn above
\* the rotation before on one axis and was taken a whole turn down, and
\* where one was moved by two turns
C28_Witness ==
    /\ pc = "animation_exported"
    /\ \E d_key \in AnimatedBones : \E k \in 1..Visited : \E i \in 1..3 :
          /\ keyframes[k].rotation[d_key][i] - Chained(d_key, k - 1)[i] = 180
          /\ Align(keyframes[k].rotation[d_key], Chained(d_key, k - 1))[i]
                = Chained(d_key, k - 1)[i] - 180
          /\ SampleDegrees(bone_data[d_key].rotation[k])[i]
                = Chained(d_key, k - 1)[i] - 180
    /\ \E d_key \in AnimatedBones : \E k \in 1..Visited : \E i \in 1..3 :
          Abs(SampleDegrees(bone_data[d_key].rotation[k])[i]
              - keyframes[k].rotation[d_key][i]) >= 720

(***************************************************************************)
(* C29                                                                     *)
(***************************************************************************)
\* C29: in the dictionary get_object_mcproperties returns for the selection
\* every mcparent that is not None is a key of the dictionary, and so
\* export_model never ends with the KeyError of a lookup
\* object_properties[mcparent].
C29_ParentsAreKeys ==
    ExportCalled =>
        /\ \A i \in DOMAIN Selected :
              Selected[i].mcparent # 0 => Selected[i].mcparent \in DOMAIN Selected
        /\ raised # None => raised.exc # "KeyError"

(***************************************************************************)
(* C30                                                                     *)
(***************************************************************************)
\* the names two entries of mctype BONE or BOTH of the dictionary share
SharedBoneNames ==
    {ObjectName(objects, mcproperties[a]) : a \in
        {a \in DOMAIN mcproperties :
            /\ mcproperties[a].mctype \in {"BONE", "BOTH"}
            /\ \E b \in DOMAIN mcproperties :
                  /\ a # b
                  /\ mcproperties[b].mctype \in {"BONE", "BOTH"}
                  /\ ObjectName(objects, mcproperties[b])
                        = ObjectName(objects, mcproperties[a])}}

\* C30: get_name_conflicts returns the empty str exactly when no two
\* entries of mctype BONE or BOTH have the same name(); when two have, the
\* str it returns is not empty and is a name two of them share.
C30_ConflictRecognised ==
    pc = "name_conflicts" =>
        /\ conflict = <<>> <=> SharedBoneNames = {}
        /\ SharedBoneNames # {} =>
              conflict # <<>> /\ conflict \in SharedBoneNames
====
